---- MODULE Spec2Model ----
(***************************************************************************)
(* Model of the verification and scoring engine of the CytoScnPy benchmark *)
(* harness (benchmark/benchmark_and_verify.py): the ground-truth store     *)
(* (Verification.load_ground_truth), the adapters of the normalizer        *)
(* (Verification.parse_tool_output), the fuzzy matcher and the scorer      *)
(* (Verification.compare), and main: its setup, its tool loop, its         *)
(* regression detector and the exit code of the process.                   *)
(*                                                                         *)
(* Strings that the code inspects character by character (paths, names)    *)
(* are sequences of one-character strings, so that endswith, basename and  *)
(* split(".") are computed, not assumed.  Python's None for a line number  *)
(* is the value None.  A Python set is a TLA+ set together with the order  *)
(* in which the running interpreter iterates it: that order depends on the *)
(* string hash seed of the process, so it is chosen nondeterministically   *)
(* once per process and per set.                                           *)
(***************************************************************************)
EXTENDS Integers, Sequences, FiniteSets, TLC

VARIABLES
    fixtures,          \* the ground_truth.json documents on disk (input)
    findings,          \* the set returned by parse_tool_output (input)
    ground_truth,      \* self.ground_truth
    covered_files,     \* self.covered_files
    truth_iter,        \* iteration order of self.ground_truth in this process
    findings_iter,     \* iteration order of the findings set in this process
    truth_remaining,   \* local list of compare
    pending,           \* findings the for loop of compare has not reached yet
    matched_findings,  \* local set of compare
    stats,             \* local dict of compare
    results,           \* value returned by compare
    pairs,             \* history: <<finding, item>> for every match of this pass
    skipped,           \* history: findings dropped by the coverage filter
    pass,              \* number of the compare call being run (1 or 2)
    first,             \* history: what the first compare call returned
    pc,                \* position of the program
    env,               \* main: the command line and the files main looks for
    baseline_file,     \* main: the file named by --compare-json, if it exists
    final_report,      \* main: final_report["results"]
    idx,               \* main: position of "for current in final_report[...]"
    cytoscnpy_regressions,  \* main: local list
    other_regressions, \* main: local list
    new_tools,         \* history: names printed as "New tool found"
    outputs,           \* main: tools_to_run, each with the output of its run
    tool_idx,          \* main: position of "for tool in tools_to_run"
    verification_results,   \* main: local list
    exit_code          \* exit status of the process, None while it runs

vars == <<fixtures, findings, ground_truth, covered_files, truth_iter,
          findings_iter, truth_remaining, pending, matched_findings, stats,
          results, pairs, skipped, pass, first, pc, env, baseline_file,
          final_report, idx, cytoscnpy_regressions, other_regressions,
          new_tools, outputs, tool_idx, verification_results, exit_code>>

\* the variables of main outside Verification
main_vars == <<env, baseline_file, final_report, idx, cytoscnpy_regressions,
               other_regressions, new_tools, outputs, tool_idx,
               verification_results, exit_code>>

----------------------------------------------------------------------------
(* Bounds of the model *)

\* most items declared in the fixtures
MaxTruth == 2

\* most findings in one tool output
MaxFindings == 2

----------------------------------------------------------------------------
(* Values *)

\* Python's None, as a line number (item.get("line_start"), item.get("line"))
None == -1

\* keys of the stats dict
Categories == {"overall", "class", "function", "import", "method", "variable"}

\* s[i..] and s[..i] of a Python string
Drop(s, n) == SubSeq(s, n + 1, Len(s))
Take(s, n) == SubSeq(s, 1, n)

\* str.endswith
EndsWith(s, t) ==
    /\ Len(t) <= Len(s)
    /\ SubSeq(s, Len(s) - Len(t) + 1, Len(s)) = t

\* index of the last occurrence of character c in s, 0 when there is none
RECURSIVE LastIndexAt(_, _, _)
LastIndexAt(s, c, i) ==
    IF i = 0 THEN 0
    ELSE IF s[i] = c THEN i
    ELSE LastIndexAt(s, c, i - 1)

LastIndex(s, c) == LastIndexAt(s, c, Len(s))

\* os.path.basename on a POSIX path: what follows the last "/"
basename(p) == Drop(p, LastIndex(p, "/"))

\* s.split(sep): the list of pieces of s between occurrences of the character
RECURSIVE Split(_, _)
Split(s, sep) ==
    LET i == LastIndex(s, sep)
    IN  IF i = 0 THEN <<s>>
        ELSE Append(Split(Take(s, i - 1), sep), Drop(s, i))

\* "/".join(parts)
RECURSIVE Join(_)
Join(parts) ==
    IF parts = <<>> THEN <<>>
    ELSE IF Len(parts) = 1 THEN parts[1]
    ELSE parts[1] \o <<"/">> \o Join(Tail(parts))

\* the parts PurePosixPath keeps: empty pieces and "." pieces are dropped
PathParts(p) == SelectSeq(Split(p, "/"), LAMBDA x : x # <<>> /\ x # <<".">>)

\* str(Path(p).as_posix()) on a POSIX system
as_posix(p) ==
    LET parts == PathParts(p)
        root  == IF Len(p) >= 1 /\ p[1] = "/"
                 THEN IF Len(p) >= 2 /\ p[2] = "/" /\ ~(Len(p) >= 3 /\ p[3] = "/")
                      THEN <<"/", "/">>
                      ELSE <<"/">>
                 ELSE <<>>
    IN  IF parts = <<>> /\ root = <<>> THEN <<".">>
        ELSE root \o Join(parts)

\* s.strip("/")
RECURSIVE LStrip(_)
LStrip(s) == IF s # <<>> /\ Head(s) = "/" THEN LStrip(Tail(s)) ELSE s

RECURSIVE RStrip(_)
RStrip(s) ==
    IF s # <<>> /\ s[Len(s)] = "/" THEN RStrip(Take(s, Len(s) - 1)) ELSE s

normalize_path(p) == RStrip(LStrip(as_posix(p)))

\* name.split(".")[-1] if name else ""
SimpleName(name) ==
    IF name = <<>> THEN <<>> ELSE Drop(name, LastIndex(name, "."))

\* every order in which a set can be iterated
RECURSIVE Perms(_)
Perms(S) ==
    IF S = {} THEN {<<>>}
    ELSE UNION {{<<x>> \o p : p \in Perms(S \ {x})} : x \in S}

\* list.remove(x) left out: the matched item stays in the pool
RemoveNothing(s, x) == s

\* list.remove(x): the list without its first element equal to x
RECURSIVE Remove(_, _)
Remove(s, x) ==
    IF s = <<>> THEN <<>>
    ELSE IF Head(s) = x THEN Tail(s)
    ELSE <<Head(s)>> \o Remove(Tail(s), x)

\* the elements of a list
Range(s) == {s[i] : i \in 1..Len(s)}

\* abs
Abs(n) == IF n < 0 THEN -n ELSE n

\* greatest common divisor of two naturals
RECURSIVE Gcd(_, _)
Gcd(a, b) == IF b = 0 THEN a ELSE Gcd(b, a % b)

\* a Python float that is the quotient of two integers, kept exact: <<n, d>>
\* in lowest terms
Frac(n, d) == LET g == Gcd(n, d) IN IF n = 0 THEN <<0, 1>> ELSE <<n \div g, d \div g>>
FracMul(x, y) == Frac(x[1] * y[1], x[2] * y[2])
FracAdd(x, y) == Frac(x[1] * y[2] + y[1] * x[2], x[2] * y[2])
FracDiv(x, y) == Frac(x[1] * y[2], x[2] * y[1])
FracPos(x) == x[1] > 0

----------------------------------------------------------------------------
(* Ground Truth Store *)

\* the distinct values of a list, in order of first appearance
RECURSIVE Distinct(_)
Distinct(s) ==
    IF s = <<>> THEN <<>>
    ELSE <<Head(s)>> \o Distinct(SelectSeq(Tail(s), LAMBDA x : x # Head(s)))

\* the file of every declaration of a list
PathsOf(decls) == [i \in 1..Len(decls) |-> decls[i].path]

\* the objects {type, name, line_start, suppressed?} of a "dead_items" list
ItemsOf(decls) ==
    [i \in 1..Len(decls) |->
        [line_start |-> decls[i].line_start, type |-> decls[i].type,
         name |-> decls[i].name, suppressed |-> decls[i].suppressed]]

\* One ground_truth.json document declaring the items decls, in that order:
\* a list of entries of its "files" mapping, each the resolved path
\* (base_dir / file_path).resolve() and the "dead_items" list of that file.
Document(decls) ==
    LET files == Distinct(PathsOf(decls))
    IN  [i \in 1..Len(files) |->
            [path       |-> files[i],
             dead_items |-> ItemsOf(SelectSeq(decls, LAMBDA d : d.path = files[i]))]]

\* A JSON value that is not an object, where load_ground_truth expects
\* one: the content of a file, or an item of a "dead_items" list.
NotAnObject == [json |-> "null"]

\* a file entry whose content is not an object
BadContent(path) == [path |-> path, content |-> NotAnObject]

\* a ground_truth.json that json.load rejects: the document whose reading
\* raises before any entry
Unparsable == <<[error |-> "JSONDecodeError"]>>

\* What the try block of load_ground_truth gets through of one document
\* before an exception ends it: the entries before the failing one and, of
\* the failing entry, its path (covered_files.add comes before content.get)
\* and the items before the failing item.  A document without a malformed
\* part is gone through whole.
RECURSIVE Reached(_)
Reached(doc) ==
    IF doc = <<>> THEN <<>>
    ELSE LET e == Head(doc)
         IN  IF "error" \in DOMAIN e THEN <<>>
             ELSE IF "dead_items" \notin DOMAIN e
             THEN <<[path |-> e.path, dead_items |-> <<>>]>>
             ELSE LET bad == {i \in 1..Len(e.dead_items) :
                                 "json" \in DOMAIN e.dead_items[i]}
                  IN  IF bad # {}
                      THEN <<[path |-> e.path,
                              dead_items |->
                                  Take(e.dead_items,
                                       (CHOOSE i \in bad :
                                           \A j \in bad : i <= j) - 1)]>>
                      ELSE <<e>> \o Reached(Tail(doc))

\* every entry load_ground_truth gets through, with the documents in the
\* order loaded
RECURSIVE EntriesOf(_)
EntriesOf(docs) ==
    IF docs = <<>> THEN <<>>
    ELSE Reached(Head(docs)) \o EntriesOf(Tail(docs))

\* the tuple load_ground_truth adds to truth_set for one dead item
TruthTuple(t_file_str, item) ==
    <<t_file_str, item.line_start, item.type, item.name>>

\* self.covered_files after load_ground_truth
LoadedCovered(docs) ==
    {normalize_path(e.path) : e \in Range(EntriesOf(docs))}

\* the items of one entry that load_ground_truth adds to truth_set
LoadedItems(e) ==
    {TruthTuple(normalize_path(e.path), e.dead_items[i]) :
        i \in 1..Len(e.dead_items)}

\* truth_set returned by load_ground_truth
LoadedTruth(docs) ==
    UNION {LoadedItems(e) : e \in Range(EntriesOf(docs))}

----------------------------------------------------------------------------
(* Fuzzy Matcher *)

\* the coverage filter left out: every finding is scored
is_covered_always(f_file, covered) == TRUE

\* the coverage filter of compare
is_covered(f_file, covered) ==
    LET f_file_norm == normalize_path(f_file)
    IN  \/ f_file_norm \in covered
        \/ \E cv \in covered :
              EndsWith(f_file_norm, cv) \/ EndsWith(cv, f_file_norm)

\* a path match that every pair of files passes
path_match_any(f_file, t_file) == TRUE

path_match(f_file, t_file) ==
    \/ basename(f_file) = basename(t_file)
    \/ EndsWith(f_file, t_file)
    \/ EndsWith(t_file, f_file)

\* the margin off by one: lines 3 apart still match
line_match_wide(f_line, t_line) ==
    \/ f_line = None
    \/ (f_line # None /\ t_line # None /\ Abs(f_line - t_line) <= 3)

line_match(f_line, t_line) ==
    \/ f_line = None
    \/ (f_line # None /\ t_line # None /\ Abs(f_line - t_line) <= 2)

\* only one direction of the method/function equivalence
type_match_one_way(f_type, t_type) ==
    \/ f_type = t_type
    \/ (t_type = "method" /\ f_type = "function")

type_match(f_type, t_type) ==
    \/ f_type = t_type
    \/ (t_type = "method" /\ f_type = "function")
    \/ (t_type = "function" /\ f_type = "method")

\* full names only: the simple names are not compared
name_match_full(f_name, t_name) == f_name = t_name

name_match(f_name, t_name) ==
    \/ SimpleName(f_name) = SimpleName(t_name)
    \/ f_name = t_name

\* the four nested conditions of the inner loop of compare
ItemMatches(f_item, t_item) ==
    /\ path_match(f_item[1], t_item[1])
    /\ line_match(f_item[2], t_item[2])
    /\ type_match(f_item[3], t_item[3])
    /\ name_match(f_item[4], t_item[4])

\* the inner loop: index in the pool of the item assigned to match, 0 when the
\* loop ends without a break
RECURSIVE FindMatchFrom(_, _, _)
FindMatchFrom(f_item, pool, i) ==
    IF i > Len(pool) THEN 0
    ELSE IF ItemMatches(f_item, pool[i]) THEN i
    ELSE FindMatchFrom(f_item, pool, i + 1)

\* the inner loop without its break: the last matching item wins
FindLastMatch(f_item, pool) ==
    LET hits == {i \in 1..Len(pool) : ItemMatches(f_item, pool[i])}
    IN  IF hits = {} THEN 0 ELSE CHOOSE i \in hits : \A j \in hits : j <= i

FindMatch(f_item, pool) == FindMatchFrom(f_item, pool, 1)

\* stat_type of a finding
StatType(f_type) == IF f_type \in Categories THEN f_type ELSE "overall"

ZeroStats == [c \in Categories |-> [TP |-> 0, FP |-> 0, FN |-> 0]]

\* stats[key][field] += 1 when key is a key of stats
Bump(st, key, fld) ==
    IF key \in Categories THEN [st EXCEPT ![key][fld] = @ + 1] ELSE st

\* a match counted under "overall" alone
CountMatchOverallOnly(st, t_item) == Bump(st, "overall", "TP")

\* the if match: branch
CountMatch(st, t_item) == Bump(Bump(st, "overall", "TP"), t_item[3], "TP")

\* a miss counted under "overall" alone
CountMissOverallOnly(st, f_item) == Bump(st, "overall", "FP")

\* the else: branch
CountMiss(st, f_item) == Bump(Bump(st, "overall", "FP"), StatType(f_item[3]), "FP")

\* the loop over truth_remaining that adds the false negatives by type
RECURSIVE CountFN(_, _)
CountFN(st, pool) ==
    IF pool = <<>> THEN st
    ELSE CountFN(Bump(st, pool[1][3], "FN"), Tail(pool))

----------------------------------------------------------------------------
(* Scorer *)

\* a precision that is 1 where nothing was reported
PrecisionOfNothingIsOne(s) ==
    IF s.TP + s.FP > 0 THEN Frac(s.TP, s.TP + s.FP) ELSE <<1, 1>>

Precision(s) == IF s.TP + s.FP > 0 THEN Frac(s.TP, s.TP + s.FP) ELSE <<0, 1>>
Recall(s) == IF s.TP + s.FN > 0 THEN Frac(s.TP, s.TP + s.FN) ELSE <<0, 1>>
F1(s) ==
    LET p == Precision(s)
        r == Recall(s)
    IN  IF FracPos(FracAdd(p, r))
        THEN FracDiv(FracMul(<<2, 1>>, FracMul(p, r)), FracAdd(p, r))
        ELSE <<0, 1>>

\* the results dict built from stats at the end of compare
Score(st) ==
    [c \in Categories |->
        [TP |-> st[c].TP, FP |-> st[c].FP, FN |-> st[c].FN,
         Precision |-> Precision(st[c]), Recall |-> Recall(st[c]),
         F1 |-> F1(st[c])]]

----------------------------------------------------------------------------
(* Inputs *)

\* the subsequences of a list with at most n elements
SubSeqsUpTo(list, n) ==
    LET Pick(I) == SelectSeq([i \in 1..Len(list) |-> <<i, list[i]>>],
                             LAMBDA x : x[1] \in I)
    IN  {[k \in 1..Len(Pick(I)) |-> Pick(I)[k][2]] :
            I \in {J \in SUBSET (1..Len(list)) : Cardinality(J) <= n}}

\* a declared dead item of a fixture, with the resolved path of its file
Decl(path, line_start, type, name, suppressed) ==
    [path |-> path, line_start |-> line_start, type |-> type, name |-> name,
     suppressed |-> suppressed]

\* a finding as parse_tool_output adds it to its set
Finding(file, line, type, name) == <<normalize_path(file), line, type, name>>

\* Declarations and findings of the general scenario: two covered files of
\* the same basename, items 2 lines apart that a finding can both match, a
\* suppressed twin of each item, findings under a relative path, under an
\* uncovered file, with a line too far away and with a type outside the
\* vocabulary.
Decls ==
    << Decl(<<"/", "d", "/", "a">>, 10, "function", <<"C", ".", "f">>, FALSE),
       Decl(<<"/", "d", "/", "a">>, 12, "method",   <<"C", ".", "f">>, FALSE),
       Decl(<<"/", "e", "/", "a">>, 10, "function", <<"C", ".", "f">>, FALSE),
       Decl(<<"/", "d", "/", "a">>, 10, "function", <<"C", ".", "f">>, TRUE),
       Decl(<<"/", "d", "/", "a">>, 12, "method",   <<"C", ".", "f">>, TRUE),
       Decl(<<"/", "e", "/", "a">>, 10, "function", <<"C", ".", "f">>, TRUE) >>

Findings ==
    { Finding(<<"a">>, 12, "function", <<"f">>),
      Finding(<<"/", "d", "/", "a">>, 11, "method", <<"C", ".", "f">>),
      Finding(<<"a">>, None, "function", <<"f">>),
      Finding(<<"a">>, 15, "function", <<"f">>),
      Finding(<<"a">>, 12, "parameter", <<"f">>),
      Finding(<<"b">>, 12, "function", <<"f">>),
      Finding(<<"b">>, 12, "parameter", <<"f">>) }

\* Declarations and findings of the matching scenario: against each item a
\* finding that meets it through every tolerance (absolute against relative
\* path, basename only, 2 lines off, no line, method against function,
\* dotted against simple name) and findings that fail on exactly one of
\* path, line, type and name.
MatchDecls ==
    << Decl(<<"/", "d", "/", "a">>, 10, "function", <<"f">>, FALSE),
       Decl(<<"/", "d", "/", "b">>, 10, "method",   <<"C", ".", "g">>, FALSE),
       Decl(<<"/", "e", "/", "a">>, 30, "function", <<"f">>, FALSE) >>

MatchFindings ==
    { Finding(<<"/", "d", "/", "a">>, 12, "function", <<"m", ".", "f">>),
      Finding(<<"a">>, 10, "method", <<"f">>),
      Finding(<<"b">>, 10, "function", <<"g">>),
      Finding(<<"a">>, 13, "function", <<"f">>),
      Finding(<<"a">>, 10, "import", <<"f">>),
      Finding(<<"a">>, 10, "function", <<"g">>),
      Finding(<<"e", "/", "a">>, 10, "function", <<"f">>),
      Finding(<<"a">>, None, "function", <<"f">>) }

\* Declarations and findings of the line scenario: one file, type and name,
\* every line distance from 0 to 3 in both directions, and no line at all on
\* either side.
LineDecls ==
    << Decl(<<"/", "d", "/", "a">>, 10, "function", <<"f">>, FALSE),
       Decl(<<"/", "d", "/", "a">>, 16, "function", <<"f">>, FALSE),
       Decl(<<"/", "d", "/", "a">>, None, "function", <<"f">>, FALSE) >>

LineFindings ==
    {Finding(<<"a">>, l, "function", <<"f">>) :
        l \in {None, 7, 8, 10, 12, 13, 14, 19}}

\* Declarations and findings of the type scenario: one file, line and name,
\* every type of the vocabulary on both sides and a type outside it.
TypeDecls ==
    << Decl(<<"/", "d", "/", "a">>, 10, "function", <<"f">>, FALSE),
       Decl(<<"/", "d", "/", "a">>, 10, "method",   <<"f">>, FALSE),
       Decl(<<"/", "d", "/", "a">>, 10, "class",    <<"f">>, FALSE),
       Decl(<<"/", "d", "/", "a">>, 10, "import",   <<"f">>, FALSE),
       Decl(<<"/", "d", "/", "a">>, 10, "variable", <<"f">>, FALSE) >>

TypeFindings ==
    {Finding(<<"a">>, 10, t, <<"f">>) :
        t \in {"function", "method", "class", "import", "variable",
               "parameter"}}

\* main has not reached its tool loop or its baseline comparison
MainIdle ==
    /\ env = <<>>
    /\ baseline_file = {}
    /\ final_report = <<>>
    /\ idx = 0
    /\ cytoscnpy_regressions = <<>>
    /\ other_regressions = <<>>
    /\ new_tools = {}
    /\ outputs = <<>>
    /\ tool_idx = 0
    /\ verification_results = <<>>
    /\ exit_code = None

InitWith(decls, fs) ==
    /\ fixtures \in {<<Document(s)>> : s \in SubSeqsUpTo(decls, MaxTruth)}
    /\ findings \in {F \in SUBSET fs : Cardinality(F) <= MaxFindings}
    /\ ground_truth = {}
    /\ covered_files = {}
    /\ truth_iter = <<>>
    /\ findings_iter = {}
    /\ truth_remaining = <<>>
    /\ pending = <<>>
    /\ matched_findings = {}
    /\ stats = ZeroStats
    /\ results = <<>>
    /\ pairs = {}
    /\ skipped = {}
    /\ pass = 1
    /\ first = {}
    /\ pc = "new"
    /\ MainIdle

Init == InitWith(Decls, Findings)

----------------------------------------------------------------------------
(* Operations *)

\* Verification.__init__: load_ground_truth fills covered_files and returns
\* the truth set; the interpreter's hash seed fixes the order in which that
\* set will be iterated.
Construct ==
    /\ pc = "new"
    /\ ground_truth' = LoadedTruth(fixtures)
    /\ covered_files' = LoadedCovered(fixtures)
    /\ truth_iter' \in Perms(LoadedTruth(fixtures))
    /\ pc' = "ready"
    /\ UNCHANGED <<fixtures, findings, findings_iter, truth_remaining, pending,
                   matched_findings, stats, results, pairs, skipped, pass,
                   first>>
    /\ UNCHANGED main_vars

\* compare with the pool shared between calls: after the first tool the pool
\* is what the tool before left of it
CompareBeginSharedPool ==
    /\ pc = "ready"
    /\ findings_iter' \in
          IF findings_iter = {} THEN {{o} : o \in Perms(findings)}
          ELSE {findings_iter}
    /\ pending' \in findings_iter'
    /\ stats' = ZeroStats
    /\ truth_remaining' =
          IF verification_results # <<>> THEN truth_remaining ELSE truth_iter
    /\ matched_findings' = {}
    /\ pairs' = {}
    /\ skipped' = {}
    /\ pc' = "loop"
    /\ UNCHANGED <<fixtures, findings, ground_truth, covered_files, truth_iter,
                   results, pass, first>>
    /\ UNCHANGED main_vars

\* compare, up to the first iteration of its loop: the findings set is
\* built, the counters are zeroed and the pool is copied from the truth set.
\* The same set built again in the same process is iterated in the same order.
CompareBegin ==
    /\ pc = "ready"
    /\ findings_iter' \in
          IF findings_iter = {} THEN {{o} : o \in Perms(findings)}
          ELSE {findings_iter}
    /\ pending' \in findings_iter'
    /\ stats' = ZeroStats
    /\ truth_remaining' = truth_iter
    /\ matched_findings' = {}
    /\ pairs' = {}
    /\ skipped' = {}
    /\ pc' = "loop"
    /\ UNCHANGED <<fixtures, findings, ground_truth, covered_files, truth_iter,
                   results, pass, first>>
    /\ UNCHANGED main_vars

\* one iteration of "for f_item in findings"
CompareStep ==
    /\ pc = "loop"
    /\ pending # <<>>
    /\ LET f_item == Head(pending)
           k      == FindMatch(f_item, truth_remaining)
       IN  /\ pending' = Tail(pending)
           /\ IF ~is_covered(f_item[1], covered_files)
              THEN /\ skipped' = skipped \cup {f_item}
                   /\ UNCHANGED <<stats, matched_findings, truth_remaining,
                                  pairs>>
              ELSE IF k # 0
              THEN /\ stats' = CountMatch(stats, truth_remaining[k])
                   /\ matched_findings' = matched_findings \cup {f_item}
                   /\ truth_remaining' =
                          Remove(truth_remaining, truth_remaining[k])
                   /\ pairs' = pairs \cup {<<f_item, truth_remaining[k]>>}
                   /\ UNCHANGED skipped
              ELSE /\ stats' = CountMiss(stats, f_item)
                   /\ UNCHANGED <<matched_findings, truth_remaining, pairs,
                                  skipped>>
    /\ UNCHANGED <<fixtures, findings, ground_truth, covered_files, truth_iter,
                   findings_iter, results, pass, first, pc>>
    /\ UNCHANGED main_vars

\* compare, after its loop: the false negatives, the metrics, the return
CompareFinish ==
    /\ pc = "loop"
    /\ pending = <<>>
    /\ stats' = CountFN([stats EXCEPT !["overall"].FN = Len(truth_remaining)],
                        truth_remaining)
    /\ results' = Score(stats')
    /\ pc' = "done"
    /\ UNCHANGED <<fixtures, findings, ground_truth, covered_files, truth_iter,
                   findings_iter, truth_remaining, pending, matched_findings,
                   pairs, skipped, pass, first>>
    /\ UNCHANGED main_vars

Next == Construct \/ CompareBegin \/ CompareStep \/ CompareFinish

Spec == Init /\ [][Next]_vars

\* the same program on the inputs of the matching, line and type scenarios
InitMatch == InitWith(MatchDecls, MatchFindings)
SpecMatch == InitMatch /\ [][Next]_vars

InitLines == InitWith(LineDecls, LineFindings)
SpecLines == InitLines /\ [][Next]_vars

InitTypes == InitWith(TypeDecls, TypeFindings)
SpecTypes == InitTypes /\ [][Next]_vars

\* A second compare call on the same tool output and the same fixtures:
\* by the same Verification object, or by a new run of the program, which
\* loads the fixtures again under a new hash seed.
CompareAgain ==
    /\ pc = "done"
    /\ pass = 1
    /\ first' = {[results |-> results, pairs |-> pairs]}
    /\ pass' = 2
    /\ pc' = "ready"
    /\ UNCHANGED <<fixtures, findings, ground_truth, covered_files, truth_iter,
                   findings_iter, truth_remaining, pending, matched_findings,
                   stats, results, pairs, skipped>>
    /\ UNCHANGED main_vars

Restart ==
    /\ pc = "done"
    /\ pass = 1
    /\ first' = {[results |-> results, pairs |-> pairs]}
    /\ pass' = 2
    /\ pc' = "new"
    /\ ground_truth' = {}
    /\ covered_files' = {}
    /\ truth_iter' = <<>>
    /\ findings_iter' = {}
    /\ truth_remaining' = <<>>
    /\ matched_findings' = {}
    /\ stats' = ZeroStats
    /\ results' = <<>>
    /\ pairs' = {}
    /\ skipped' = {}
    /\ UNCHANGED <<fixtures, findings, pending>>
    /\ UNCHANGED main_vars

NextTwice == Next \/ CompareAgain \/ Restart

SpecTwice == Init /\ [][NextTwice]_vars

----------------------------------------------------------------------------
(* Properties *)

\* the findings of the tool output that pass the coverage filter, and the
\* rest, in the words of the specification: the normalized file equals a
\* covered file, or one of the two is a string suffix of the other
Uncovered(f_item) ==
    LET n == normalize_path(f_item[1])
    IN  \A cv \in covered_files :
            /\ n # cv
            /\ ~EndsWith(cv, n)
            /\ ~EndsWith(n, cv)

CoveredFindings == {f \in findings : ~Uncovered(f)}

\* the ground-truth items a pass has consumed
Consumed == {p[2] : p \in pairs}

\* the items a finding can match at all
Matchable(f) == {t \in ground_truth : ItemMatches(f, t)}

\* the covered findings whose only possible match is t
OnlyFor(t) == {f \in CoveredFindings : Matchable(f) = {t}}

\* C1: within one compare pass the matching is 1:1.  No item is consumed by
\* two findings and no finding consumes two items; a consumed item is gone
\* from the remaining pool, which holds exactly the items not consumed; and
\* of two findings whose only possible match is one and the same item, at
\* most one is a true positive, exactly one when no third finding took it.
C1_OneToOne ==
    /\ \A p \in pairs : \A q \in pairs :
          (p[1] = q[1] \/ p[2] = q[2]) => p = q
    /\ \A p \in pairs : p[1] \in findings /\ p[2] \in ground_truth
    /\ pc \in {"loop", "done"} =>
          /\ Range(truth_remaining) = ground_truth \ Consumed
          /\ Len(truth_remaining) = Cardinality(ground_truth \ Consumed)
          /\ {p[1] : p \in pairs} = matched_findings
    /\ pc = "done" =>
          /\ stats["overall"].TP = Cardinality(pairs)
          /\ \A t \in ground_truth : \A f \in OnlyFor(t) : \A g \in OnlyFor(t) :
                f # g =>
                   /\ ~(f \in matched_findings /\ g \in matched_findings)
                   /\ (\A p \in pairs : p[2] = t => p[1] \in {f, g})
                         => (f \in matched_findings \/ g \in matched_findings)

\* two findings have competed for one item: one took it, the other is the
\* pass's only false positive
C1_Witness ==
    /\ pc = "done"
    /\ \E t \in ground_truth : \E f \in OnlyFor(t) : \E g \in OnlyFor(t) :
          /\ f # g
          /\ <<f, t>> \in pairs
          /\ g \notin matched_findings
    /\ stats["overall"].TP = 1
    /\ stats["overall"].FP = 1

\* the distinct items the fixtures declare without the suppressed mark
DeclaredUnsuppressed ==
    UNION {{TruthTuple(normalize_path(e.path), e.dead_items[i]) :
               i \in {j \in 1..Len(e.dead_items) : ~e.dead_items[j].suppressed}} :
           e \in Range(EntriesOf(fixtures))}

\* the distinct items the fixtures declare only with the suppressed mark
DeclaredSuppressed ==
    UNION {{TruthTuple(normalize_path(e.path), e.dead_items[i]) :
               i \in {j \in 1..Len(e.dead_items) : e.dead_items[j].suppressed}} :
           e \in Range(EntriesOf(fixtures))} \ DeclaredUnsuppressed

\* C2: after compare, overall TP + overall FN is the number of distinct
\* ground-truth items declared in the fixtures and not marked suppressed.
C2_TruthConservation ==
    pc = "done" =>
        stats["overall"].TP + stats["overall"].FN
            = Cardinality(DeclaredUnsuppressed)

\* C3: after compare, overall TP + overall FP is the number of distinct
\* findings whose file passes the coverage filter, whatever their types.
C3_FindingConservation ==
    pc = "done" =>
        stats["overall"].TP + stats["overall"].FP
            = Cardinality(CoveredFindings)

\* C4: an item marked suppressed is excluded from the truth set that
\* load_ground_truth builds, so it is never matched and never a false
\* negative.
C4_SuppressedExcluded ==
    /\ ground_truth \cap DeclaredSuppressed = {}
    /\ Consumed \cap DeclaredSuppressed = {}
    /\ Range(truth_remaining) \cap DeclaredSuppressed = {}

\* C5: processing a finding whose normalized file is neither a covered
\* file, nor a suffix of one, nor has one as its suffix changes no counter
\* of any category and removes nothing from the remaining pool.
C5_UncoveredDiscarded ==
    [][(pc = "loop" /\ pending # <<>> /\ Uncovered(Head(pending))) =>
          /\ stats' = stats
          /\ truth_remaining' = truth_remaining
          /\ matched_findings' = matched_findings
          /\ pairs' = pairs]_vars

\* a pass over one covered and one uncovered finding has ended with the
\* covered one matched and nothing counted for the other
C5_Witness ==
    /\ pc = "done"
    /\ covered_files # {}
    /\ Cardinality(findings) = 2
    /\ \E f \in findings : Uncovered(f) /\ f \in skipped
    /\ stats["overall"].TP = 1
    /\ stats["overall"].FP = 0
    /\ stats["overall"].FN = 0

\* The matching predicates in the words of the specification.
IsSuffix(a, b) == \E i \in 0..Len(b) : Drop(b, i) = a

LastPiece(s, sep) == LET parts == Split(s, sep) IN parts[Len(parts)]

PathOk(f_file, t_file) ==
    \/ LastPiece(f_file, "/") = LastPiece(t_file, "/")
    \/ IsSuffix(f_file, t_file)
    \/ IsSuffix(t_file, f_file)

LineOk(f_line, t_line) ==
    \/ f_line = None
    \/ (f_line # None /\ t_line # None /\ f_line - t_line \in -2..2)

TypeOk(f_type, t_type) ==
    \/ f_type = t_type
    \/ {f_type, t_type} = {"function", "method"}

NameOk(f_name, t_name) ==
    \/ f_name = t_name
    \/ LastPiece(f_name, ".") = LastPiece(t_name, ".")

Satisfies(f, t) ==
    /\ PathOk(f[1], t[1])
    /\ LineOk(f[2], t[2])
    /\ TypeOk(f[3], t[3])
    /\ NameOk(f[4], t[4])

\* the covered findings a finished pass left unmatched
Unmatched == CoveredFindings \ matched_findings

\* C6: a covered finding is counted as a true positive if and only if, when
\* it is processed, the remaining pool holds an item that meets path, line,
\* type and name match; otherwise it is counted as a false positive.
C6_TruePositiveIff ==
    [][(pc = "loop" /\ pending # <<>> /\ ~Uncovered(Head(pending))) =>
          LET f == Head(pending)
          IN  IF \E t \in Range(truth_remaining) : Satisfies(f, t)
              THEN /\ stats'["overall"].TP = stats["overall"].TP + 1
                   /\ stats'["overall"].FP = stats["overall"].FP
                   /\ f \in matched_findings'
              ELSE /\ stats'["overall"].TP = stats["overall"].TP
                   /\ stats'["overall"].FP > stats["overall"].FP
                   /\ f \notin matched_findings']_vars

\* a pass has matched a finding to an item that differs from it in path,
\* type and name, and has counted another covered finding, which meets an
\* item still in the pool in all but one predicate, as a false positive
C6_Witness ==
    /\ pc = "done"
    /\ \E p \in pairs :
          p[1][1] # p[2][1] /\ p[1][3] # p[2][3] /\ p[1][4] # p[2][4]
    /\ \E g \in Unmatched : \E t \in Range(truth_remaining) :
          /\ PathOk(g[1], t[1])
          /\ LineOk(g[2], t[2])
          /\ TypeOk(g[3], t[3])
          /\ ~NameOk(g[4], t[4])
    /\ stats["overall"].TP = 1
    /\ stats["overall"].FP = 1

\* C7: line match holds exactly when the finding has no line, or both lines
\* are known and at most 2 apart.  Every match of a pass meets that, and no
\* covered finding is left unmatched beside a remaining item that meets it
\* and the path, type and name match.
C7_LineMatch ==
    /\ \A p \in pairs : LineOk(p[1][2], p[2][2])
    /\ pc = "done" =>
          \A f \in Unmatched : \A t \in Range(truth_remaining) :
              (/\ path_match(f[1], t[1])
               /\ type_match(f[3], t[3])
               /\ name_match(f[4], t[4])) => ~LineOk(f[2], t[2])

\* a finding 2 lines from an item has matched it, and a finding 3 lines from
\* the item left in the pool has not
C7_Witness ==
    /\ pc = "done"
    /\ \E p \in pairs : p[1][2] # None /\ Abs(p[1][2] - p[2][2]) = 2
    /\ \E f \in Unmatched : \E t \in Range(truth_remaining) :
          f[2] # None /\ t[2] # None /\ Abs(f[2] - t[2]) = 3

\* C8: type match is equality, or the pair function/method in either
\* direction.  Every match of a pass meets that, and no covered finding is
\* left unmatched beside a remaining item that meets it and the path, line
\* and name match.
C8_TypeMatch ==
    /\ \A p \in pairs : TypeOk(p[1][3], p[2][3])
    /\ pc = "done" =>
          \A f \in Unmatched : \A t \in Range(truth_remaining) :
              (/\ path_match(f[1], t[1])
               /\ line_match(f[2], t[2])
               /\ name_match(f[4], t[4])) => ~TypeOk(f[3], t[3])

\* a method finding has matched a function item, and an import finding beside
\* a remaining variable item has not matched
C8_Witness ==
    /\ pc = "done"
    /\ \E p \in pairs : p[1][3] = "method" /\ p[2][3] = "function"
    /\ \E f \in Unmatched : \E t \in Range(truth_remaining) :
          f[3] = "import" /\ t[3] = "variable"

\* C9: when several items of the remaining pool meet all predicates for a
\* finding, the one consumed is the first of them in the order of the pool.
C9_FirstMatch ==
    [][(pc = "loop" /\ pending # <<>> /\ ~Uncovered(Head(pending))) =>
          LET f    == Head(pending)
              hits == {i \in 1..Len(truth_remaining) :
                          Satisfies(f, truth_remaining[i])}
          IN  hits # {} =>
                 \E k \in hits :
                    /\ \A j \in hits : k <= j
                    /\ pairs' = pairs \cup {<<f, truth_remaining[k]>>}
                    /\ truth_remaining' =
                          Take(truth_remaining, k - 1) \o Drop(truth_remaining, k)]_vars

\* a finding has consumed an item while an item that meets all predicates
\* too, and is nearer to it by line, is still in the pool
C9_Witness ==
    \E p \in pairs : \E u \in Range(truth_remaining) :
        /\ Satisfies(p[1], u)
        /\ p[1][2] # None /\ u[2] # None /\ p[2][2] # None
        /\ Abs(p[1][2] - u[2]) < Abs(p[1][2] - p[2][2])

\* C10: a second compare call on the same findings and the same ground truth
\* returns the same matches and the same category statistics as the first.
C10_Idempotent ==
    (pc = "done" /\ pass = 2) =>
        first = {[results |-> results, pairs |-> pairs]}

\* the truth tuples of the fixtures in the order of their declaration: the
\* documents in the order loaded, the files of a document and the items of a
\* file in the order written, an item declared again keeping its first place
RECURSIVE TuplesInOrder(_)
TuplesInOrder(entries) ==
    IF entries = <<>> THEN <<>>
    ELSE LET e == Head(entries)
         IN  [i \in 1..Len(e.dead_items) |->
                 TruthTuple(normalize_path(e.path), e.dead_items[i])]
             \o TuplesInOrder(Tail(entries))

DeclaredOrder == Distinct(TuplesInOrder(EntriesOf(fixtures)))

\* C11: the pool of every compare pass is iterated in insertion order, the
\* order in which the items were declared in the fixtures.
C11_InsertionOrder ==
    pc = "loop" => truth_remaining =
        SelectSeq(DeclaredOrder, LAMBDA t : t \in Range(truth_remaining))

\* the fraction x is the number 0
IsZero(x) == x[1] = 0 /\ x[2] > 0

\* the fraction x is n / d
IsQuotient(x, n, d) == x[2] > 0 /\ x[1] * d = n * x[2]

\* the fraction x lies in [0, 1]
InUnit(x) == x[2] > 0 /\ 0 <= x[1] /\ x[1] <= x[2]

\* C12: in every category Precision = TP/(TP+FP), Recall = TP/(TP+FN) and
\* F1 = 2PR/(P+R), each 0 when its denominator is 0, and all three lie in
\* [0, 1].
C12_Metrics ==
    pc = "done" =>
        \A c \in Categories :
            LET r  == results[c]
                P  == r.Precision
                R  == r.Recall
                PR == P[1] * R[2] + R[1] * P[2]    \* numerator of P + R
            IN  /\ r.TP = stats[c].TP /\ r.FP = stats[c].FP /\ r.FN = stats[c].FN
                /\ IF r.TP + r.FP = 0 THEN IsZero(P)
                   ELSE IsQuotient(P, r.TP, r.TP + r.FP)
                /\ IF r.TP + r.FN = 0 THEN IsZero(R)
                   ELSE IsQuotient(R, r.TP, r.TP + r.FN)
                /\ IF PR = 0 THEN IsZero(r.F1)
                   ELSE IsQuotient(r.F1, 2 * P[1] * R[1], PR)
                /\ InUnit(P) /\ InUnit(R) /\ InUnit(r.F1)

\* one pass has scored a category with all three metrics strictly between 0
\* and 1, a category with no TP and no FP but a FN (zero precision
\* denominator) and a category with a FP but no TP and no FN or with
\* nothing at all (zero recall denominator)
C12_Witness ==
    /\ pc = "done"
    /\ \E c \in Categories :
          /\ results[c].TP > 0 /\ results[c].FP > 0 /\ results[c].FN > 0
          /\ 0 < results[c].F1[1] /\ results[c].F1[1] < results[c].F1[2]
    /\ \E c \in Categories :
          results[c].TP = 0 /\ results[c].FP = 0 /\ results[c].FN > 0
    /\ \E c \in Categories :
          results[c].TP = 0 /\ results[c].FN = 0

----------------------------------------------------------------------------
(* main: setup, tool runs, report and Regression Detector *)

\* "w in s" for strings
IsSubstring(w, s) ==
    \E i \in 1..(Len(s) + 1 - Len(w)) : SubSeq(s, i, i + Len(w) - 1) = w

\* names of the tools list of main
CytoScnPy == <<"C", "y", "t", "o", "S", "c", "n", "P", "y">>
CytoScnPyRust == CytoScnPy \o <<" ", "(", "R", "u", "s", "t", ")">>
Vulture0 == <<"V", "u", "l", "t", "u", "r", "e", " ", "(", "0", "%", ")">>
Ruff == <<"R", "u", "f", "f">>

\* Times are in tenths of a second and memory in MB, so that the values of
\* the scenarios are integers; F1, precision, recall and the threshold are
\* fractions <<numerator, denominator>> with a positive denominator.
TimeFloor == 10                 \* if time_diff > 1.0
MemoryFloor == 5                \* if mem_diff > 5.0
F1Tolerance == <<1, 1000>>      \* if f1_diff > 0.001
PrecisionTolerance == <<1, 100>>    \* if prec_diff > 0.01
RecallTolerance == <<1, 100>>       \* if recall_diff > 0.01

\* x > y and x - y for fractions that may be negative
FracGt(x, y) == x[1] * y[2] > y[1] * x[2]
FracSub(x, y) == <<x[1] * y[2] - y[1] * x[2], x[2] * y[2]>>

\* diff / base if base > 0 else 0
RatioOf(diff, base) == IF base > 0 THEN <<diff, base>> ELSE <<0, 1>>

\* one record of the "results" list of a baseline document; precision and
\* recall are the optional keys
BaseRecord(name, time, memory_mb, f1_score) ==
    [name |-> name, time |-> time, memory_mb |-> memory_mb,
     f1_score |-> f1_score]

BaseRecordPR(name, time, memory_mb, f1_score, precision, recall) ==
    [name |-> name, time |-> time, memory_mb |-> memory_mb,
     f1_score |-> f1_score, precision |-> precision, recall |-> recall]

\* the entry main appends to final_report["results"] for one tool run, from
\* the measurements of the run and the result of verifier.compare (the
\* "issues" value and the "Tool" key of v_res are left out)
Entry(name, time, memory_mb, v_res) ==
    [name |-> name, time |-> time, memory_mb |-> memory_mb,
     f1_score |-> v_res["overall"].F1, stats |-> v_res]

\* the lookup of the baseline record without the comparison of names
BaseOfAnyName(baseline, current) ==
    IF baseline.results = <<>> THEN <<>> ELSE <<Head(baseline.results)>>

\* next((b for b in baseline["results"] if b["name"] == current["name"]), None)
\* as a list with at most one element
BaseOf(baseline, current) ==
    LET hits == SelectSeq(baseline.results, LAMBDA b : b.name = current.name)
    IN  IF hits = <<>> THEN <<>> ELSE <<Head(hits)>>

\* the regression messages of one tool, in the order main builds them
Message(current, metric) == [name |-> current.name, metric |-> metric]

\* the time check without its floor of 1.0 s
TimeMessagesRatioOnly(current, base, threshold) ==
    IF FracGt(RatioOf(current.time - base.time, base.time), threshold)
    THEN <<Message(current, "Time")>> ELSE <<>>

TimeMessages(current, base, threshold) ==
    LET time_diff  == current.time - base.time
        time_ratio == RatioOf(time_diff, base.time)
    IN  IF FracGt(time_ratio, threshold) /\ time_diff > TimeFloor
        THEN <<Message(current, "Time")>> ELSE <<>>

MemoryMessages(current, base, threshold) ==
    LET mem_diff  == current.memory_mb - base.memory_mb
        mem_ratio == RatioOf(mem_diff, base.memory_mb)
    IN  IF FracGt(mem_ratio, threshold) /\ mem_diff > MemoryFloor
        THEN <<Message(current, "Memory")>> ELSE <<>>

F1Messages(current, base) ==
    LET f1_diff == FracSub(base.f1_score, current.f1_score)
    IN  IF FracGt(f1_diff, F1Tolerance)
        THEN <<Message(current, "F1 Score")>> ELSE <<>>

PrecisionMessages(current, base) ==
    IF "precision" \in DOMAIN base /\ "precision" \in DOMAIN current
    THEN IF FracGt(FracSub(base.precision, current.precision),
                   PrecisionTolerance)
         THEN <<Message(current, "Precision")>> ELSE <<>>
    ELSE <<>>

RecallMessages(current, base) ==
    IF "recall" \in DOMAIN base /\ "recall" \in DOMAIN current
    THEN IF FracGt(FracSub(base.recall, current.recall), RecallTolerance)
         THEN <<Message(current, "Recall")>> ELSE <<>>
    ELSE <<>>

Messages(current, base, threshold) ==
    TimeMessages(current, base, threshold)
        \o MemoryMessages(current, base, threshold)
        \o F1Messages(current, base)
        \o PrecisionMessages(current, base)
        \o RecallMessages(current, base)

\* is_cytoscnpy
is_cytoscnpy(current) == IsSubstring(CytoScnPy, current.name)

\* run_rust_build
run_rust_build(tools_to_run) ==
    \E i \in 1..Len(tools_to_run) : IsSubstring(CytoScnPyRust, tools_to_run[i])

\* Scenario of the baseline comparison.  Against baseline times of 0.5 s and
\* 20 s and baseline memories of 10 MB and 100 MB the measurements rise by
\* less than the floor, by the floor exactly, by the threshold ratio exactly
\* and by more than both; F1 falls by the tolerance exactly and by more.  A
\* baseline memory of 0 MB is what a run without psutil records; Ruff is in
\* no baseline and CytoScnPy (Rust) is not in the last one.
Thresholds == {<<1, 10>>, <<1, 2>>}
ToolSets == {<<>>, <<CytoScnPyRust, Vulture0>>, <<Vulture0, Ruff>>}
Times == {5, 10, 15, 200, 220}
Memories == {10, 15, 100, 110}
F1Scores == {<<4, 5>>, <<799, 1000>>, <<1, 2>>}

\* the results of verifier.compare for a tool run: overall counts that give
\* the F1 scores above, 4/5 once from precision 1 and recall 2/3 and once
\* from precision 2/3 and recall 1
OverallCounts(tp, fp, fn) ==
    [ZeroStats EXCEPT !["overall"] = [TP |-> tp, FP |-> fp, FN |-> fn]]

VerificationResults ==
    {Score(OverallCounts(c[1], c[2], c[3])) :
        c \in {<<2, 0, 1>>, <<2, 1, 0>>, <<799, 201, 201>>, <<1, 1, 1>>}}

\* a baseline document: the text of the file is JSON or not, and its
\* "results" list
BaselineDocs ==
    { [json |-> FALSE, results |-> <<>>],
      [json |-> TRUE,
       results |-> << BaseRecord(CytoScnPyRust, 200, 100, <<4, 5>>),
                      BaseRecordPR(Vulture0, 5, 0, <<1, 2>>, <<1, 2>>,
                                   <<1, 2>>) >>],
      [json |-> TRUE,
       results |-> << BaseRecord(Vulture0, 200, 10, <<4, 5>>),
                      BaseRecord(CytoScnPyRust, 0, 10, <<1, 2>>) >>],
      [json |-> TRUE,
       results |-> << BaseRecord(Vulture0, 5, 10, <<4, 5>>) >>] }

\* The command line and the files main looks for.  cargo_toml and build_ok
\* are read only when the Rust build runs.
Envs ==
    {e \in [target_dir : BOOLEAN, tools_to_run : ToolSets,
            cargo_toml : BOOLEAN, build_ok : BOOLEAN,
            compare_json : BOOLEAN, threshold : Thresholds] :
        ~run_rust_build(e.tools_to_run) => (e.cargo_toml /\ e.build_ok)}

\* the reports main can compile for the tools it ran
Reports(tools_to_run) ==
    {[i \in 1..Len(tools_to_run) |->
         Entry(tools_to_run[i], m[i][1], m[i][2], m[i][3])] :
        m \in [1..Len(tools_to_run) ->
                  Times \X Memories \X VerificationResults]}

\* Verification is not constructed yet
VerifierIdle ==
    /\ fixtures = <<>>
    /\ findings = {}
    /\ ground_truth = {}
    /\ covered_files = {}
    /\ truth_iter = <<>>
    /\ findings_iter = {}
    /\ truth_remaining = <<>>
    /\ pending = <<>>
    /\ matched_findings = {}
    /\ stats = ZeroStats
    /\ results = <<>>
    /\ pairs = {}
    /\ skipped = {}
    /\ pass = 1
    /\ first = {}

verifier_vars == <<fixtures, findings, ground_truth, covered_files,
                   truth_iter, findings_iter, truth_remaining, pending,
                   matched_findings, stats, results, pairs, skipped, pass,
                   first>>

InitMain ==
    /\ VerifierIdle
    /\ pc = "main"
    /\ env \in Envs
    /\ baseline_file \in {{}} \cup {{d} : d \in BaselineDocs}
    /\ final_report = <<>>
    /\ idx = 0
    /\ cytoscnpy_regressions = <<>>
    /\ other_regressions = <<>>
    /\ new_tools = {}
    /\ outputs = <<>>
    /\ tool_idx = 0
    /\ verification_results = <<>>
    /\ exit_code = None

\* main returns, or sys.exit(code), or an exception leaves main
Exit(code) ==
    /\ exit_code' = code
    /\ pc' = "exited"

\* main, down to the selection of the tools: the target directory is looked
\* for and the tools are filtered
CheckTarget ==
    /\ pc = "main"
    /\ IF ~env.target_dir THEN Exit(0)
       ELSE IF env.tools_to_run = <<>> THEN Exit(0)
       ELSE pc' = "build" /\ UNCHANGED exit_code
    /\ UNCHANGED <<env, baseline_file, final_report, idx,
                   cytoscnpy_regressions, other_regressions, new_tools,
                   outputs, tool_idx, verification_results>>
    /\ UNCHANGED verifier_vars

\* main: the Rust build, if CytoScnPy (Rust) is to run; a failed build
\* raises CalledProcessError out of main
BuildRust ==
    /\ pc = "build"
    /\ IF run_rust_build(env.tools_to_run)
       THEN IF ~env.cargo_toml THEN Exit(0)
            ELSE IF ~env.build_ok THEN Exit(1)
            ELSE pc' = "run" /\ UNCHANGED exit_code
       ELSE pc' = "run" /\ UNCHANGED exit_code
    /\ UNCHANGED <<env, baseline_file, final_report, idx,
                   cytoscnpy_regressions, other_regressions, new_tools,
                   outputs, tool_idx, verification_results>>
    /\ UNCHANGED verifier_vars

\* main: the tools run and are verified, and the report is compiled; the
\* times, memories and F1 scores are what the runs gave.  An exception of
\* verifier.compare leaves main.  Without --compare-json main returns.
RunTools ==
    /\ pc = "run"
    /\ \/ Exit(1) /\ UNCHANGED final_report
       \/ /\ final_report' \in Reports(env.tools_to_run)
          /\ IF env.compare_json THEN pc' = "baseline" /\ UNCHANGED exit_code
             ELSE Exit(0)
    /\ UNCHANGED <<env, baseline_file, idx, cytoscnpy_regressions,
                   other_regressions, new_tools, outputs, tool_idx,
                   verification_results>>
    /\ UNCHANGED verifier_vars

\* main: the baseline file is opened and parsed; FileNotFoundError and any
\* other exception end in sys.exit(1)
OpenBaseline ==
    /\ pc = "baseline"
    /\ IF baseline_file = {} THEN Exit(1) /\ UNCHANGED idx
       ELSE IF \E d \in baseline_file : ~d.json THEN Exit(1) /\ UNCHANGED idx
       ELSE idx' = 1 /\ pc' = "regress" /\ UNCHANGED exit_code
    /\ cytoscnpy_regressions' = <<>>
    /\ other_regressions' = <<>>
    /\ UNCHANGED <<env, baseline_file, final_report, new_tools, outputs,
                   tool_idx, verification_results>>
    /\ UNCHANGED verifier_vars

\* one iteration of "for current in final_report["results"]"
CompareTool ==
    /\ pc = "regress"
    /\ idx <= Len(final_report)
    /\ \E baseline \in baseline_file :
          LET current == final_report[idx]
              base    == BaseOf(baseline, current)
          IN  IF base = <<>>
              THEN /\ new_tools' = new_tools \cup {current.name}
                   /\ UNCHANGED <<cytoscnpy_regressions, other_regressions>>
              ELSE LET msgs == Messages(current, base[1], env.threshold)
                   IN  /\ IF is_cytoscnpy(current)
                          THEN /\ cytoscnpy_regressions' =
                                      cytoscnpy_regressions \o msgs
                               /\ UNCHANGED other_regressions
                          ELSE /\ other_regressions' =
                                      other_regressions \o msgs
                               /\ UNCHANGED cytoscnpy_regressions
                       /\ UNCHANGED new_tools
    /\ idx' = idx + 1
    /\ UNCHANGED <<env, baseline_file, final_report, outputs, tool_idx,
                   verification_results, exit_code, pc>>
    /\ UNCHANGED verifier_vars

\* the end of the comparison with every regression made blocking
FinishCompareAllBlocking ==
    /\ pc = "regress"
    /\ idx > Len(final_report)
    /\ IF cytoscnpy_regressions \o other_regressions # <<>>
       THEN Exit(1) ELSE Exit(0)
    /\ UNCHANGED <<env, baseline_file, final_report, idx,
                   cytoscnpy_regressions, other_regressions, new_tools,
                   outputs, tool_idx, verification_results>>
    /\ UNCHANGED verifier_vars

\* main, after the loop: the warnings are printed, and sys.exit(1) if
\* CytoScnPy regressed; otherwise main returns
FinishCompare ==
    /\ pc = "regress"
    /\ idx > Len(final_report)
    /\ IF cytoscnpy_regressions # <<>> THEN Exit(1) ELSE Exit(0)
    /\ UNCHANGED <<env, baseline_file, final_report, idx,
                   cytoscnpy_regressions, other_regressions, new_tools,
                   outputs, tool_idx, verification_results>>
    /\ UNCHANGED verifier_vars

NextMain ==
    \/ CheckTarget \/ BuildRust \/ RunTools \/ OpenBaseline \/ CompareTool
    \/ FinishCompare

SpecMain == InitMain /\ [][NextMain]_vars

----------------------------------------------------------------------------
(* Properties of the Regression Detector and of the exit code *)

\* the parsed baseline document
Baseline == CHOOSE d \in baseline_file : TRUE

\* the tools of the report that the comparison loop has been through
ComparedTools ==
    IF pc \in {"regress", "exited"} /\ baseline_file # {}
    THEN {i \in 1..Len(final_report) : i < idx} ELSE {}

\* the tools of the report that have a record in the baseline
InBaseline(i) == BaseOf(Baseline, final_report[i]) # <<>>
BaseRecordOf(i) == BaseOf(Baseline, final_report[i])[1]

\* a regression of either severity is flagged for the tool
Flagged(i) ==
    \E m \in Range(cytoscnpy_regressions) \cup Range(other_regressions) :
        m.name = final_report[i].name

\* a value rose by more than the threshold ratio of its baseline value and
\* by more than the floor
RoseBeyond(now, before, floor) ==
    /\ (now - before) * env.threshold[2] > env.threshold[1] * before
    /\ now - before > floor

\* a fraction fell by more than 1/per
FellBeyond(now, before, per) ==
    (before[1] * now[2] - now[1] * before[2]) * per > before[2] * now[2]

AccuracyFell(cur, base) ==
    \/ FellBeyond(cur.f1_score, base.f1_score, 1000)
    \/ /\ "precision" \in DOMAIN base /\ "precision" \in DOMAIN cur
       /\ FellBeyond(cur.precision, base.precision, 100)
    \/ /\ "recall" \in DOMAIN base /\ "recall" \in DOMAIN cur
       /\ FellBeyond(cur.recall, base.recall, 100)

\* C13 as stated: a tool present in both the report and the baseline is
\* flagged if and only if its time rose by more than the threshold ratio of
\* the baseline time and by more than 1.0 s, or its memory rose by more than
\* the threshold ratio and by more than 5.0 MB, or its F1 fell by more than
\* 0.001, or its precision or recall, present in both, fell by more than 0.01.
C13_FlaggedIff ==
    \A i \in ComparedTools :
        InBaseline(i) =>
            LET cur  == final_report[i]
                base == BaseRecordOf(i)
            IN  Flagged(i) <=>
                    \/ RoseBeyond(cur.time, base.time, 10)
                    \/ RoseBeyond(cur.memory_mb, base.memory_mb, 5)
                    \/ AccuracyFell(cur, base)

\* C13, amended: the same, with a rise of time or memory counted only
\* against a baseline value above 0; from a baseline time or memory of 0 no
\* rise of that measure is flagged.
C13_FlaggedIffPositiveBaseline ==
    \A i \in ComparedTools :
        InBaseline(i) =>
            LET cur  == final_report[i]
                base == BaseRecordOf(i)
            IN  Flagged(i) <=>
                    \/ base.time > 0 /\ RoseBeyond(cur.time, base.time, 10)
                    \/ /\ base.memory_mb > 0
                       /\ RoseBeyond(cur.memory_mb, base.memory_mb, 5)
                    \/ AccuracyFell(cur, base)

\* the comparison has flagged one tool whose time rose beyond ratio and
\* floor, and has left unflagged a tool whose time rose beyond the ratio but
\* by the floor at most, or beyond the floor but by the ratio at most
C13_Witness ==
    /\ pc = "exited"
    /\ \E i \in ComparedTools :
          /\ InBaseline(i) /\ Flagged(i)
          /\ BaseRecordOf(i).time > 0
          /\ RoseBeyond(final_report[i].time, BaseRecordOf(i).time, 10)
    /\ \E i \in ComparedTools :
          LET cur  == final_report[i]
              base == BaseRecordOf(i)
          IN  /\ InBaseline(i) /\ ~Flagged(i)
              /\ base.time > 0
              /\ \/ /\ cur.time - base.time > 10
                    /\ ~RoseBeyond(cur.time, base.time, 10)
                 \/ /\ cur.time - base.time <= 10
                    /\ RoseBeyond(cur.time, base.time, 0)

\* the process has ended in the baseline comparison: the report was
\* compiled and --compare-json was given
EndedInComparison ==
    /\ pc = "exited"
    /\ final_report # <<>>
    /\ env.compare_json

\* the comparison has been through every tool of the report without an
\* exception
ComparisonCompleted ==
    /\ EndedInComparison
    /\ baseline_file # {}
    /\ ComparedTools = 1..Len(final_report)

\* a regression is flagged for the tool under development
OwnRegression ==
    \E i \in ComparedTools :
        Flagged(i) /\ IsSubstring(CytoScnPy, final_report[i].name)

\* a regression is flagged for a third-party tool
ThirdPartyRegression ==
    \E i \in ComparedTools :
        Flagged(i) /\ ~IsSubstring(CytoScnPy, final_report[i].name)

\* C14 as stated: a comparison against a baseline file that exists ends
\* the process with a non-zero exit code if and only if a flagged regression
\* belongs to a tool whose name contains "CytoScnPy".
C14_ExitIffOwnRegression ==
    (EndedInComparison /\ baseline_file # {}) =>
        (exit_code # 0 <=> OwnRegression)

\* C14, amended: a comparison that has read the baseline and been through
\* every tool without an exception ends the process with a non-zero exit
\* code if and only if a flagged regression belongs to a tool whose name
\* contains "CytoScnPy"; regressions of third-party tools alone end it with
\* exit code 0.
C14_CompletedExitIffOwnRegression ==
    ComparisonCompleted =>
        /\ exit_code \in {0, 1}
        /\ exit_code # 0 <=> OwnRegression
        /\ (ThirdPartyRegression /\ ~OwnRegression) => exit_code = 0

\* a comparison has flagged a third-party tool, has not flagged a present
\* CytoScnPy tool, and the process has ended with exit code 0
C14_Witness ==
    /\ ComparisonCompleted
    /\ ThirdPartyRegression
    /\ ~OwnRegression
    /\ \E i \in ComparedTools :
          InBaseline(i) /\ IsSubstring(CytoScnPy, final_report[i].name)
    /\ exit_code = 0

\* the tool is in the report and no record of the baseline has its name
IsNewTool(i) ==
    \A k \in 1..Len(Baseline.results) :
        Baseline.results[k].name # final_report[i].name

\* C15: a tool of the current run that is absent from the baseline is
\* reported as new and no regression of either severity is flagged for it,
\* whatever its time, memory and F1; alone it leaves the exit code 0.
C15_NewToolNoRegression ==
    /\ \A i \in ComparedTools :
          IsNewTool(i) =>
              /\ final_report[i].name \in new_tools
              /\ ~Flagged(i)
    /\ (ComparisonCompleted /\ \A i \in ComparedTools : IsNewTool(i)) =>
          exit_code = 0

\* CytoScnPy (Rust), absent from the baseline, has been compared with the
\* largest time and memory and the smallest F1 of the scenario
C15_Witness ==
    /\ ComparisonCompleted
    /\ \E i \in ComparedTools :
          /\ IsNewTool(i)
          /\ IsSubstring(CytoScnPy, final_report[i].name)
          /\ final_report[i].time = 220
          /\ final_report[i].memory_mb = 110
          /\ final_report[i].f1_score = <<1, 2>>
          /\ final_report[i].name \in new_tools

\* C16: when the file given to --compare-json does not exist the comparison
\* is skipped and the run ends with exit code 0.
C16_MissingBaselineSucceeds ==
    (EndedInComparison /\ baseline_file = {}) => exit_code = 0

\* a fatal setup error: the target directory is missing, or Cargo.toml is
\* missing when the Rust build is to run
SetupError ==
    \/ ~env.target_dir
    \/ run_rust_build(env.tools_to_run) /\ ~env.cargo_toml

\* C17: the exit code is 1 whenever a blocking regression is found or a fatal
\* setup error occurs, and 0 only when neither has happened.
C17_ExitCode ==
    pc = "exited" =>
        /\ (SetupError \/ OwnRegression) => exit_code = 1
        /\ exit_code = 0 => (~SetupError /\ ~OwnRegression)

----------------------------------------------------------------------------
(* Normalizer: the adapters of parse_tool_output *)

\* The output of a tool is text.  For the line formats it is the list of
\* its lines, each a sequence of pieces: a piece is one character or a word
\* in which no separator occurs ("unused function", "12").  For the JSON
\* formats it is what json.loads makes of it: kind "text" when the text is
\* not JSON, kind "list" with the items of an array, kind "object" with the
\* keys and the values of an object.

\* what an adapter gives: the exception that leaves it ("" when none does),
\* and the findings set it returns
Returns(fs) == [error |-> "", findings |-> fs]
Raises(exception) == [error |-> exception, findings |-> {}]

\* a loop over items whose bodies give rs: the first exception leaves the
\* loop, otherwise every finding is added
Collected(rs) ==
    LET bad == {i \in 1..Len(rs) : rs[i].error # ""}
    IN  IF bad # {}
        THEN Raises(rs[CHOOSE i \in bad : \A j \in bad : i <= j].error)
        ELSE Returns(UNION {rs[i].findings : i \in 1..Len(rs)})

\* s.rsplit(sep, n)
RECURSIVE RSplit(_, _, _)
RSplit(s, sep, n) ==
    LET i == LastIndex(s, sep)
    IN  IF n = 0 \/ i = 0 THEN <<s>>
        ELSE Append(RSplit(Take(s, i - 1), sep, n - 1), Drop(s, i))

\* s.strip()
RECURSIVE LStripSpace(_)
LStripSpace(s) ==
    IF s # <<>> /\ Head(s) = " " THEN LStripSpace(Tail(s)) ELSE s

RECURSIVE RStripSpace(_)
RStripSpace(s) ==
    IF s # <<>> /\ s[Len(s)] = " "
    THEN RStripSpace(Take(s, Len(s) - 1)) ELSE s

Strip(s) == RStripSpace(LStripSpace(s))

\* int(s): the numerals of the scenarios and their values; any other text
\* raises ValueError
Numerals == ("1" :> 1) @@ ("10" :> 10) @@ ("12" :> 12)
IsNumeral(s) == Len(Strip(s)) = 1 /\ Strip(s)[1] \in DOMAIN Numerals
int(s) == Numerals[Strip(s)[1]]

\* d.get(key, default) and "key in d"
Has(d, key) == key \in DOMAIN d
Get(d, key, default) == IF key \in DOMAIN d THEN d[key] ELSE default

\* the Vulture adapter, body of "for line in output.splitlines()"
VultureType(msg) ==
    IF IsSubstring(<<"unused function">>, msg) THEN "function"
    ELSE IF IsSubstring(<<"unused import">>, msg) THEN "import"
    ELSE IF IsSubstring(<<"unused class">>, msg) THEN "class"
    ELSE IF IsSubstring(<<"unused variable">>, msg) THEN "variable"
    ELSE IF IsSubstring(<<"unused method">>, msg) THEN "method"
    ELSE "unknown"

VultureLine(line) ==
    LET parts == RSplit(line, ":", 2)
    IN  IF Len(parts) # 3 THEN Returns({})
        ELSE IF ~IsNumeral(parts[2]) THEN Returns({})    \* except ValueError
        ELSE LET msg       == Strip(parts[3])
                 type_name == VultureType(msg)
             IN  IF type_name = "unknown" THEN Returns({})
                 ELSE IF Len(Split(msg, "'")) < 2 THEN Raises("IndexError")
                 ELSE Returns({<<normalize_path(Strip(parts[1])),
                                 int(parts[2]), type_name,
                                 Split(msg, "'")[2]>>})

Vulture(output) ==
    Collected([i \in 1..Len(output) |-> VultureLine(output[i])])

\* the Pylint adapter, body of "for item in data"
PylintItem(item) ==
    IF ~Has(item, "symbol") THEN Raises("KeyError")
    ELSE IF item.symbol = "unused-import"
    THEN IF ~Has(item, "path") \/ ~Has(item, "line") THEN Raises("KeyError")
         ELSE LET obj  == Get(item, "obj", <<>>)
                  msg  == Get(item, "message", <<>>)
                  name == IF obj = <<>> /\ Has(item, "message")
                             /\ IsSubstring(<<"Unused import ">>, msg)
                          THEN Strip(Split(msg, "Unused import ")[2])
                          ELSE obj
              IN  Returns({<<normalize_path(item.path), item.line, "import",
                             name>>})
    ELSE IF item.symbol = "unused-variable"
    THEN IF ~Has(item, "path") \/ ~Has(item, "line") THEN Raises("KeyError")
         ELSE LET msg  == Get(item, "message", <<>>)
                  name == IF IsSubstring(<<"'">>, msg) THEN Split(msg, "'")[2]
                          ELSE Get(item, "obj", <<>>)
              IN  IF name # <<>>
                  THEN Returns({<<normalize_path(item.path), item.line,
                                  "variable", name>>})
                  ELSE Returns({})
    ELSE Returns({})

\* the Pylint adapter: only JSONDecodeError is caught; the items of an
\* object are its keys, which are strings, and item["symbol"] on a string
\* raises TypeError
Pylint(output) ==
    IF output.kind = "text" THEN Returns({})
    ELSE IF output.kind = "object"
    THEN IF output.keys = <<>> THEN Returns({}) ELSE Raises("TypeError")
    ELSE Collected([i \in 1..Len(output.items) |->
                        PylintItem(output.items[i])])

\* the CytoScnPy adapter, body of "for item in data.get(key, [])"
CytoScnPyItem(item, fallback_type) ==
    LET name      == Get(item, "name", <<>>)
        item_name == IF Get(item, "simple_name", <<>>) # <<>>
                     THEN item.simple_name ELSE SimpleName(name)
    IN  Returns({<<normalize_path(Get(item, "file", <<>>)),
                   Get(item, "line", None),
                   Get(item, "def_type", fallback_type), item_name>>})

\* key_to_fallback_type, in the order of its items
key_to_fallback_type ==
    << <<"unused_functions", "function">>, <<"unused_methods", "method">>,
       <<"unused_imports", "import">>, <<"unused_classes", "class">>,
       <<"unused_variables", "variable">> >>

\* the CytoScnPy adapter: only JSONDecodeError is caught, and data.get on a
\* list raises AttributeError
CytoScnPyAdapter(output) ==
    IF output.kind = "text" THEN Returns({})
    ELSE IF output.kind = "list" THEN Raises("AttributeError")
    ELSE Returns(UNION {UNION {CytoScnPyItem(
                                   Get(output.values, kf[1], <<>>)[i],
                                   kf[2]).findings :
                               i \in 1..Len(Get(output.values, kf[1], <<>>))} :
                        kf \in Range(key_to_fallback_type)})

\* str.lower on the type words of the scenario
lower(t) ==
    CASE t = "Function" -> "function"
      [] t = "Property" -> "property"
      [] OTHER -> t

\* the Skylos adapter: type_map
skylos_type_map ==
    [t \in {"function", "class", "import", "variable", "parameter", "method"}
        |-> IF t = "parameter" THEN "variable" ELSE t]

\* isinstance(item, dict)
IsDict(item) == "json" \notin DOMAIN item

\* the Skylos adapter, body of "for item in items_list"
SkylosItem(item) ==
    IF ~IsDict(item) THEN {}
    ELSE LET skylos_type == lower(Get(item, "type", ""))
             type_name   == IF skylos_type \in DOMAIN skylos_type_map
                            THEN skylos_type_map[skylos_type]
                            ELSE skylos_type
             fpath       == normalize_path(Get(item, "file", <<>>))
             item_name   == IF Get(item, "simple_name", <<>>) # <<>>
                            THEN item.simple_name
                            ELSE SimpleName(Get(item, "name", <<>>))
             lineno      == Get(item, "line", None)
         IN  IF type_name # "" /\ item_name # <<>>
             THEN {<<fpath, lineno, type_name, item_name>>}
             ELSE {}

\* the keys of a Skylos object whose lists are gathered, in order
skylos_keys ==
    <<"unused_functions", "unused_imports", "unused_classes",
      "unused_variables", "items">>

\* the Skylos adapter, items_list of a payload
RECURSIVE GatherKeys(_, _)
GatherKeys(output, keys) ==
    IF keys = <<>> THEN <<>>
    ELSE Get(output.values, Head(keys), <<>>) \o GatherKeys(output, Tail(keys))

items_list(output) ==
    IF output.kind = "list" THEN output.items
    ELSE IF output.kind = "object"
    THEN IF GatherKeys(output, skylos_keys) # <<>>
         THEN GatherKeys(output, skylos_keys)
         ELSE Get(output.values, "results", <<>>)
    ELSE <<>>

\* the Skylos adapter
Skylos(output) ==
    Returns(UNION {SkylosItem(items_list(output)[i]) :
                      i \in 1..Len(items_list(output))})

\* "Vulture" in name, name == "Pylint"
VultureName == <<"V", "u", "l", "t", "u", "r", "e">>
PylintName == <<"P", "y", "l", "i", "n", "t">>
SkylosName == <<"S", "k", "y", "l", "o", "s">>

\* parse_tool_output, for the tools of the tool-loop scenario
parse_tool_output(name, output) ==
    IF name = CytoScnPyRust THEN CytoScnPyAdapter(output)
    ELSE IF IsSubstring(VultureName, name) THEN Vulture(output)
    ELSE IF name = SkylosName THEN Skylos(output)
    ELSE IF name = PylintName THEN Pylint(output)
    ELSE Returns({})

\* json.loads of a text that is not JSON, of an array and of an object
JsonText == [kind |-> "text"]
JsonList(items) == [kind |-> "list", items |-> items]
JsonObject(keys, values) == [kind |-> "object", keys |-> keys, values |-> values]

\* the sequences of at most two different elements of a set
UpToTwoOf(S) ==
    {<<>>} \cup {<<x>> : x \in S}
           \cup {<<q[1], q[2]>> : q \in {r \in S \X S : r[1] # r[2]}}

\* Scenario of the tool loop.  Vulture lines: two well-formed ones, one
\* without a quoted name and one whose line number is not a number.  Pylint
\* payloads: text that is not JSON, an object instead of an array, and arrays
\* of records, one of them without "symbol".  CytoScnPy payloads: text that
\* is not JSON, an array instead of an object, and two well-formed objects.
VultureLines ==
    { <<"a", ":", "10", ":", " ", "unused function", " ", "'", "f", "'",
        " ", "(60% confidence)">>,
      <<"a", ":", "12", ":", " ", "unused method", " ", "'", "f", "'">>,
      <<"a", ":", "12", ":", " ", "unused function", " ", "foo">>,
      <<"a", ":", "xx", ":", " ", "unused function", " ", "'", "f", "'">> }

PylintItems ==
    { [symbol |-> "unused-import", path |-> <<"a">>, line |-> 1,
       obj |-> <<>>, message |-> <<"Unused import ", "os">>],
      [path |-> <<"a">>, line |-> 1],
      [symbol |-> "unused-variable", path |-> <<"a">>, line |-> 10,
       message |-> <<"Unused variable ", "'", "x", "'">>] }

PylintOutputs ==
    {JsonText, JsonObject(<<>>, <<>>), JsonObject(<<"messages">>, <<>>)}
        \cup {JsonList(items) : items \in UpToTwoOf(PylintItems)}

CytoScnPyOutputs ==
    { JsonText, JsonList(<<>>),
      JsonObject(<<"unused_functions">>,
                 "unused_functions" :>
                     <<[file |-> <<"a">>, line |-> 10,
                        name |-> <<"C", ".", "f">>]>>),
      JsonObject(<<"unused_functions">>,
                 "unused_functions" :>
                     <<[file |-> <<"a">>, line |-> 12,
                        name |-> <<"C", ".", "f">>,
                        def_type |-> "method"]>>),
      JsonObject(<<"unused_variables">>,
                 "unused_variables" :>
                     <<[file |-> <<"a">>, line |-> 10,
                        name |-> <<"f">>,
                        def_type |-> "parameter"]>>) }

\* Skylos payloads: text that is not JSON, arrays of items (a function, a
\* parameter, a property, an item without a name, a string) and objects
\* holding a list under "unused_functions" or under "results"
SkylosItems ==
    { [file |-> <<"a">>, line |-> 10, name |-> <<"C", ".", "f">>,
       type |-> "Function"],
      [file |-> <<"a">>, line |-> 12, name |-> <<"f">>, type |-> "parameter"],
      [file |-> <<"a">>, line |-> 12, name |-> <<"f">>, type |-> "Property"],
      [file |-> <<"a">>, line |-> 12, type |-> "function"],
      NotAnObject }

SkylosOutputs ==
    {JsonText}
        \cup {JsonList(items) : items \in UpToTwoOf(SkylosItems)}
        \cup {JsonObject(<<"unused_functions">>, "unused_functions" :> <<x>>) :
                  x \in SkylosItems}
        \cup {JsonObject(<<"results">>, "results" :> <<x>>) : x \in SkylosItems}

\* a tool of tools_to_run with the output of its run
Run(name, output) == [name |-> name, output |-> output]

OutputSets ==
    {<<Run(CytoScnPyRust, c), Run(Vulture0, v)>> :
        c \in CytoScnPyOutputs, v \in UpToTwoOf(VultureLines)}
    \cup {<<Run(Vulture0, v), Run(PylintName, p)>> :
        v \in UpToTwoOf(VultureLines), p \in PylintOutputs}
    \cup {<<Run(PylintName, p), Run(CytoScnPyRust, c)>> :
        p \in PylintOutputs, c \in CytoScnPyOutputs}
    \cup {<<Run(SkylosName, k), Run(Vulture0, v)>> :
        k \in SkylosOutputs, v \in UpToTwoOf(VultureLines)}

\* main at the head of its tool loop: Verification is constructed on a
\* fixture declaring a function and a method of /d/a
InitTools ==
    /\ fixtures = <<Document(<<Decls[1], Decls[2]>>)>>
    /\ findings = {}
    /\ ground_truth = LoadedTruth(fixtures)
    /\ covered_files = LoadedCovered(fixtures)
    /\ truth_iter \in Perms(LoadedTruth(fixtures))
    /\ findings_iter = {}
    /\ truth_remaining = <<>>
    /\ pending = <<>>
    /\ matched_findings = {}
    /\ stats = ZeroStats
    /\ results = <<>>
    /\ pairs = {}
    /\ skipped = {}
    /\ pass = 1
    /\ first = {}
    /\ pc = "tool"
    /\ env = <<>>
    /\ baseline_file = {}
    /\ final_report = <<>>
    /\ idx = 0
    /\ cytoscnpy_regressions = <<>>
    /\ other_regressions = <<>>
    /\ new_tools = {}
    /\ outputs \in OutputSets
    /\ tool_idx = 1
    /\ verification_results = <<>>
    /\ exit_code = None

\* verifier.compare, its first line: the adapter of the tool parses the
\* output.  An exception of the adapter leaves compare and main, and the
\* process ends with a traceback and exit code 1.
ParseOutput ==
    /\ pc = "tool"
    /\ tool_idx <= Len(outputs)
    /\ LET r == parse_tool_output(outputs[tool_idx].name,
                                  outputs[tool_idx].output)
       IN  IF r.error # ""
           THEN Exit(1) /\ UNCHANGED <<findings, findings_iter>>
           ELSE /\ findings' = r.findings
                /\ findings_iter' = {}
                /\ pc' = "ready"
                /\ UNCHANGED exit_code
    /\ UNCHANGED <<fixtures, ground_truth, covered_files, truth_iter,
                   truth_remaining, pending, matched_findings, stats,
                   results, pairs, skipped, pass, first>>
    /\ UNCHANGED <<env, baseline_file, final_report, idx,
                   cytoscnpy_regressions, other_regressions, new_tools,
                   outputs, tool_idx, verification_results>>

\* main: the result of compare is kept and the loop goes to the next tool
NextTool ==
    /\ pc = "done"
    /\ tool_idx <= Len(outputs)
    /\ verification_results' =
          Append(verification_results,
                 [Tool |-> outputs[tool_idx].name, results |-> results])
    /\ tool_idx' = tool_idx + 1
    /\ pc' = "tool"
    /\ UNCHANGED verifier_vars
    /\ UNCHANGED <<env, baseline_file, final_report, idx,
                   cytoscnpy_regressions, other_regressions, new_tools,
                   outputs, exit_code>>

\* main, after the tool loop, run without --compare-json: the tables are
\* printed and main returns
FinishTools ==
    /\ pc = "tool"
    /\ tool_idx > Len(outputs)
    /\ Exit(0)
    /\ UNCHANGED verifier_vars
    /\ UNCHANGED <<env, baseline_file, final_report, idx,
                   cytoscnpy_regressions, other_regressions, new_tools,
                   outputs, tool_idx, verification_results>>

NextTools ==
    \/ ParseOutput \/ CompareBegin \/ CompareStep \/ CompareFinish
    \/ NextTool \/ FinishTools

SpecTools == InitTools /\ [][NextTools]_vars

----------------------------------------------------------------------------
(* Properties of the adapters and of the tool loop *)

\* the tool at the head of the loop and its output
AtTool == pc = "tool" /\ tool_idx <= Len(outputs)
ToolName == outputs[tool_idx].name
ToolOutput == outputs[tool_idx].output

\* the output is a structured payload that does not parse, or parses to
\* another shape than the adapter expects (CytoScnPy: an object, Pylint: an
\* array)
MalformedPayload ==
    \/ /\ ToolName = CytoScnPyRust
       /\ ToolOutput.kind # "object"
    \/ /\ ToolName = PylintName
       /\ ToolOutput.kind # "list"

\* C18: the adapter of a tool whose output is a malformed payload returns
\* zero findings, and the loop goes on with the comparison of that tool and
\* then with the remaining tools.
C18_MalformedPayloadCaught ==
    [][(AtTool /\ MalformedPayload) =>
          (pc' = "ready" /\ findings' = {} /\ exit_code' = None)]_vars

\* the lines or records of an output of the expected shape, and for each
\* what the adapter makes of it alone
PiecesOf(name, output) ==
    IF name = PylintName
    THEN [i \in 1..Len(output.items) |-> PylintItem(output.items[i])]
    ELSE [i \in 1..Len(output) |-> VultureLine(output[i])]

\* C19: on an output of lines (Vulture) or of records (Pylint) the adapter
\* does not raise, and returns the findings of every line or record that it
\* can parse.
C19_UnparseableDropped ==
    [][(/\ AtTool
        /\ \/ ToolName = Vulture0
           \/ ToolName = PylintName /\ ToolOutput.kind = "list") =>
          LET ps == PiecesOf(ToolName, ToolOutput)
          IN  /\ pc' = "ready"
              /\ findings' = UNION {ps[i].findings : i \in 1..Len(ps)}]_vars

----------------------------------------------------------------------------
(* Ground-truth loading with malformed fixtures *)

\* Scenario: two well-formed fixtures, a fixture whose second dead item is
\* not an object, a fixture whose second file has a content that is not an
\* object, and a fixture that is not JSON.
ItemFailsFixture ==
    LET b     == <<"/", "h", "/", "b">>
        items == ItemsOf(<< Decl(b, 12, "function", <<"f">>, FALSE),
                            Decl(b, 5, "class", <<"K">>, FALSE) >>)
    IN  << [path |-> b, dead_items |-> <<items[1], NotAnObject, items[2]>>],
           [path |-> <<"/", "h", "/", "c">>, dead_items |-> <<>>] >>

ContentFailsFixture ==
    Document(<<Decl(<<"/", "k", "/", "a">>, 10, "function", <<"f">>, FALSE)>>)
        \o <<BadContent(<<"/", "k", "/", "b">>)>>
        \o Document(<<Decl(<<"/", "k", "/", "z">>, 1, "function", <<"f">>,
                           FALSE)>>)

LoadFixtures ==
    { Document(<<Decls[1], Decls[2]>>), Document(<<Decls[3]>>),
      ItemFailsFixture, ContentFailsFixture, Unparsable }

\* files_to_load holds two fixtures, in either order
InitLoad ==
    /\ fixtures \in {<<q[1], q[2]>> :
                        q \in {r \in LoadFixtures \X LoadFixtures :
                                  r[1] # r[2]}}
    /\ findings \in {F \in SUBSET Findings : Cardinality(F) <= MaxFindings}
    /\ ground_truth = {}
    /\ covered_files = {}
    /\ truth_iter = <<>>
    /\ findings_iter = {}
    /\ truth_remaining = <<>>
    /\ pending = <<>>
    /\ matched_findings = {}
    /\ stats = ZeroStats
    /\ results = <<>>
    /\ pairs = {}
    /\ skipped = {}
    /\ pass = 1
    /\ first = {}
    /\ pc = "new"
    /\ MainIdle

SpecLoad == InitLoad /\ [][Next]_vars

\* the fixture parses: it is JSON, every file content is an object and
\* every dead item is an object
ParsesWell(doc) ==
    \A k \in 1..Len(doc) :
        /\ DOMAIN doc[k] = {"path", "dead_items"}
        /\ \A i \in 1..Len(doc[k].dead_items) :
              DOMAIN doc[k].dead_items[i] =
                  {"line_start", "type", "name", "suppressed"}

WellFormedEntries ==
    UNION {Range(d) : d \in {x \in Range(fixtures) : ParsesWell(x)}}

\* C20: after load_ground_truth the truth set and the covered files hold
\* every entry of every well-formed fixture, whatever the order of the
\* fixtures, and nothing of a fixture that failed, part-way or at once.
C20_SoftLoad ==
    pc # "new" =>
        /\ covered_files = {normalize_path(e.path) : e \in WellFormedEntries}
        /\ ground_truth =
              UNION {{TruthTuple(normalize_path(e.path), e.dead_items[i]) :
                         i \in 1..Len(e.dead_items)} :
                     e \in WellFormedEntries}

\* the same of the well-formed fixtures alone: they are loaded whole, in
\* either order and beside any malformed fixture
C20_WellFormedLoaded ==
    pc # "new" =>
        /\ {normalize_path(e.path) : e \in WellFormedEntries}
              \subseteq covered_files
        /\ UNION {{TruthTuple(normalize_path(e.path), e.dead_items[i]) :
                      i \in 1..Len(e.dead_items)} :
                  e \in WellFormedEntries} \subseteq ground_truth

----------------------------------------------------------------------------
(* Properties of the tally *)

\* the statistics of one compare call that starts from the pool given and
\* meets the findings in the order given
RECURSIVE TallyFrom(_, _, _)
TallyFrom(order, pool, st) ==
    IF order = <<>>
    THEN CountFN([st EXCEPT !["overall"].FN = Len(pool)], pool)
    ELSE LET f_item == Head(order)
             k      == FindMatch(f_item, pool)
         IN  IF ~is_covered(f_item[1], covered_files)
             THEN TallyFrom(Tail(order), pool, st)
             ELSE IF k # 0
             THEN TallyFrom(Tail(order), Remove(pool, pool[k]),
                            CountMatch(st, pool[k]))
             ELSE TallyFrom(Tail(order), pool, CountMiss(st, f_item))

\* C21: compare keeps the stored ground truth and the covered files as the
\* constructor left them, and each call works on a copy that holds every
\* ground-truth item once: what a tool is given as its results is what a
\* single call on the whole ground truth gives for its findings, whichever
\* tools main evaluated before it.
C21_PerToolIsolation ==
    /\ ground_truth = LoadedTruth(fixtures)
    /\ covered_files = LoadedCovered(fixtures)
    /\ Range(truth_iter) = ground_truth
    /\ Len(truth_iter) = Cardinality(ground_truth)
    /\ pc = "loop" =>
          /\ Range(truth_remaining) \cup Consumed = ground_truth
          /\ Len(truth_remaining) + Cardinality(Consumed)
                = Cardinality(ground_truth)
    /\ pc = "done" =>
          \E o \in findings_iter :
              results = Score(TallyFrom(o, truth_iter, ZeroStats))

\* the second tool of the loop has found both items of the ground truth
\* after the first tool had consumed one of them
C21_Witness ==
    /\ pc = "done"
    /\ Len(verification_results) = 1
    /\ verification_results[1].results["overall"].TP >= 1
    /\ results["overall"].TP = 2
    /\ results["overall"].FN = 0

\* the five canonical types of the vocabulary
CanonicalTypes == Categories \ {"overall"}

\* an iteration of the loop of compare on a covered finding that ends
\* without a match
UnmatchedStep ==
    /\ pc = "loop"
    /\ pending # <<>>
    /\ ~Uncovered(Head(pending))
    /\ pending' = Tail(pending)
    /\ truth_remaining' = truth_remaining

\* C22: each unmatched covered finding is one false positive.  Overall FP
\* grows by exactly 1; the FP of the finding's type grows by exactly 1 when
\* the type is canonical; no other counter changes, so a finding of a type
\* outside the vocabulary is counted under "overall" only, once.
C22_OneFalsePositive ==
    [][UnmatchedStep =>
          LET f_type == Head(pending)[3]
          IN  /\ stats'["overall"].FP = stats["overall"].FP + 1
              /\ \A c \in CanonicalTypes :
                     stats'[c].FP =
                        stats[c].FP + (IF f_type = c THEN 1 ELSE 0)
              /\ \A c \in Categories :
                     /\ stats'[c].TP = stats[c].TP
                     /\ stats'[c].FN = stats[c].FN]_vars

\* the items of the set that are of type c
OfType(items, c) == {t \in items : t[3] = c}

\* C23: after compare, overall FN is the size of the remaining pool, the FN
\* of a canonical type is the number of remaining items declared of that
\* type, its TP is the number of consumed items declared of that type, and
\* so TP + FN of the type is the number of ground-truth items of the type.
C23_TruthSidePerType ==
    pc = "done" =>
        /\ stats["overall"].FN = Len(truth_remaining)
        /\ \A c \in CanonicalTypes :
               /\ stats[c].FN = Cardinality(OfType(Range(truth_remaining), c))
               /\ stats[c].TP = Cardinality(OfType(Consumed, c))
               /\ stats[c].TP + stats[c].FN
                     = Cardinality(OfType(ground_truth, c))

\* a finding has consumed an item declared of another type than its own,
\* and an item is left in the pool
C23_Witness ==
    /\ pc = "done"
    /\ \E p \in pairs : p[1][3] # p[2][3]
    /\ truth_remaining # <<>>

\* the TP and FP of a type taken together
Reported(c) == stats[c].TP + stats[c].FP

\* the covered findings that consumed an item
MatchedFindings == {p[1] : p \in pairs}

\* C25: after compare, for each canonical type, TP + FP of the type is the
\* number of distinct covered findings of that type.
C25_FindingSidePerType ==
    pc = "done" =>
        \A c \in CanonicalTypes :
            Reported(c) = Cardinality(OfType(CoveredFindings, c))

\* C25, amended: FP of a type counts the unmatched covered findings of the
\* type and TP of a type counts the matches that consumed an item of the
\* type, whatever the type of the finding.  TP + FP is the number of covered
\* findings of the type for class, import and variable; function and method
\* findings consume items of either type, so only the two types together
\* are conserved.
C25_FindingSideFunctionOrMethod ==
    pc = "done" =>
        /\ \A c \in CanonicalTypes :
               /\ stats[c].FP
                     = Cardinality(OfType(CoveredFindings \ MatchedFindings, c))
               /\ stats[c].TP = Cardinality({q \in pairs : q[2][3] = c})
        /\ \A c \in {"class", "import", "variable"} :
               Reported(c) = Cardinality(OfType(CoveredFindings, c))
        /\ Reported("function") + Reported("method")
              = Cardinality(OfType(CoveredFindings, "function")
                            \cup OfType(CoveredFindings, "method"))

\* a function finding has consumed a method item and another finding has
\* matched nothing
C25_Witness ==
    /\ pc = "done"
    /\ \E p \in pairs : p[1][3] = "function" /\ p[2][3] = "method"
    /\ \E c \in CanonicalTypes : stats[c].FP > 0

\* C24: every finding that parse_tool_output hands to the matcher carries a
\* type of the canonical vocabulary, whatever the tool and its output.
C24_CanonicalTypes ==
    \A f_item \in findings : f_item[3] \in CanonicalTypes

\* C26: with the order of the pool held fixed, the overall TP, FP and FN of
\* compare are those of every other order in which the set of findings can
\* be iterated.
C26_FindingOrderIndependent ==
    pc = "done" =>
        \A o \in Perms(findings) :
            TallyFrom(o, truth_iter, ZeroStats)["overall"] = stats["overall"]

\* one of the two paths is a string suffix of the other
SuffixRelated(f_file, t_file) ==
    IsSuffix(f_file, t_file) \/ IsSuffix(t_file, f_file)

\* C27: a finding consumes only an item of its own file: in every match one
\* of the two normalized paths is a suffix of the other.
C27_OwnFileOnly ==
    \A p \in pairs : SuffixRelated(p[1][1], p[2][1])

\* C27, amended: in every match the finding has passed the coverage filter,
\* the item's file is a covered file, and the two paths have the same
\* basename or one is a suffix of the other; the item's file need not be the
\* covered file through which the finding passed the filter.
C27_OwnFileOrSameBasename ==
    \A p \in pairs :
        /\ ~Uncovered(p[1])
        /\ p[2][1] \in covered_files
        /\ PathOk(p[1][1], p[2][1])

\* a finding has consumed an item of another directory's file of the same
\* basename
C27_Witness ==
    /\ pc = "done"
    /\ \E p \in pairs :
          /\ ~SuffixRelated(p[1][1], p[2][1])
          /\ LastPiece(p[1][1], "/") = LastPiece(p[2][1], "/")

----------------------------------------------------------------------------
(* The baseline round trip: a run with --save-json, then a run with
   --compare-json on the file the first run wrote *)

\* the reports of the saving run: both tools at 20 s and 100 MB, with every
\* verification result
SavedReports ==
    {r \in Reports(<<CytoScnPyRust, Vulture0>>) :
        \A i \in 1..Len(r) : r[i].time = 200 /\ r[i].memory_mb = 100}

\* json.dump(final_report, f) and, in the later run, json.load(f): the
\* entries come back with the keys and values main gave them
SavedDocument(report) == [json |-> TRUE, results |-> report]

\* the command line of the comparing run
RoundTripEnvs ==
    {e \in Envs : /\ e.target_dir /\ e.cargo_toml /\ e.build_ok
                  /\ e.compare_json
                  /\ e.tools_to_run = <<CytoScnPyRust, Vulture0>>}

InitRoundTrip ==
    /\ VerifierIdle
    /\ pc = "save"
    /\ env \in RoundTripEnvs
    /\ baseline_file = {}
    /\ final_report = <<>>
    /\ idx = 0
    /\ cytoscnpy_regressions = <<>>
    /\ other_regressions = <<>>
    /\ new_tools = {}
    /\ outputs = <<>>
    /\ tool_idx = 0
    /\ verification_results = <<>>
    /\ exit_code = None

\* the saving run of main, with --save-json and without --compare-json: the
\* tools run, the report is compiled and written to the baseline file
SaveBaseline ==
    /\ pc = "save"
    /\ \E report \in SavedReports :
          baseline_file' = {SavedDocument(report)}
    /\ pc' = "main"
    /\ UNCHANGED <<env, final_report, idx, cytoscnpy_regressions,
                   other_regressions, new_tools, outputs, tool_idx,
                   verification_results, exit_code>>
    /\ UNCHANGED verifier_vars

NextRoundTrip == SaveBaseline \/ NextMain

SpecRoundTrip == InitRoundTrip /\ [][NextRoundTrip]_vars

\* overall precision or recall of the entry is lower than that of the
\* baseline entry by more than 0.01
PrecisionOrRecallFell(cur, base) ==
    \/ FellBeyond(cur.stats["overall"].Precision,
                  base.stats["overall"].Precision, 100)
    \/ FellBeyond(cur.stats["overall"].Recall,
                  base.stats["overall"].Recall, 100)

\* C28: compared with a baseline that --save-json wrote, a tool whose
\* overall precision or recall is lower than in the baseline run by more
\* than 0.01 has a regression flagged.
C28_RoundTripFlagsPrecisionRecall ==
    ComparisonCompleted =>
        \A i \in ComparedTools :
            (InBaseline(i)
               /\ PrecisionOrRecallFell(final_report[i], BaseRecordOf(i)))
              => Flagged(i)

----------------------------------------------------------------------------
(* run_benchmarks: the performance suite and its stored baseline.  Of the
   variables, env is the command line of the run (args), results the list
   of BenchmarkResult of the run, baseline_file the file
   benchmark/baseline_results.json, pass the number of the run. *)

MaxRuns == 3

\* mean times in hundredths of a second: none, a baseline of 1 s and rises
\* of 10 %, 20 % and 100 % on it
Means == {0, 100, 110, 120, 200}

\* a BenchmarkResult, and the record save_results writes for it (the files,
\* stddev, min, max and runs fields are written and never read back)
BenchmarkResult(dataset, lines, mean_seconds) ==
    [dataset |-> dataset, lines |-> lines, mean_seconds |-> mean_seconds]

\* run_benchmark_suite: one result for each dataset hyperfine succeeded on
BenchmarkSuites ==
    {<<>>}
      \cup {<<BenchmarkResult("large", 1000, m)>> : m \in Means}
      \cup {<<BenchmarkResult("small", 100, m)>> : m \in Means}
      \cup {<<BenchmarkResult("large", 1000, m), BenchmarkResult("small", 100, n)>> :
                m \in Means, n \in Means}

\* the command line, and whether the datasets directory and hyperfine are
\* found
BenchEnvs ==
    [skip_regression : BOOLEAN, threshold : Thresholds, setup_ok : BOOLEAN]

\* save_results: the document written to the baseline file
save_results(rs) == [json |-> TRUE, results |-> rs]

\* the loop of check_regression: the current results that are flagged
regressions(current, baseline, threshold) ==
    {i \in 1..Len(current) :
        \E k \in 1..Len(baseline.results) :
            LET base      == baseline.results[k]
                base_mean == base.mean_seconds
            IN  /\ base.dataset = current[i].dataset
                /\ base_mean > 0
                /\ FracGt(RatioOf(current[i].mean_seconds - base_mean,
                                  base_mean), threshold)}

\* check_regression: True when a regression is detected
check_regression(current, baseline, threshold) ==
    regressions(current, baseline, threshold) # {}

\* the variables run_benchmarks has no use for
bench_frame ==
    <<fixtures, findings, ground_truth, covered_files, truth_iter,
      findings_iter, truth_remaining, pending, matched_findings, stats,
      pairs, skipped, first, final_report, idx, cytoscnpy_regressions,
      other_regressions, new_tools, outputs, tool_idx, verification_results>>

\* before the first run: no baseline file, or one that is not JSON
InitBench ==
    /\ VerifierIdle
    /\ pc = "shell"
    /\ env = <<>>
    /\ baseline_file \in {{}, {[json |-> FALSE, results |-> <<>>]}}
    /\ final_report = <<>>
    /\ idx = 0
    /\ cytoscnpy_regressions = <<>>
    /\ other_regressions = <<>>
    /\ new_tools = {}
    /\ outputs = <<>>
    /\ tool_idx = 0
    /\ verification_results = <<>>
    /\ exit_code = None

\* main, down to print_results_table: the arguments are parsed, the
\* datasets directory and hyperfine are looked for (sys.exit(1) without
\* them) and the suite runs
StartRun ==
    /\ pc = "shell"
    /\ env' \in BenchEnvs
    /\ IF env'.setup_ok
       THEN /\ results' \in BenchmarkSuites
            /\ pc' = "check"
            /\ UNCHANGED exit_code
       ELSE Exit(1) /\ UNCHANGED results
    /\ UNCHANGED <<baseline_file, pass>>
    /\ UNCHANGED bench_frame

\* main saves the results before it checks them
SaveThenCheck ==
    /\ pc = "check"
    /\ baseline_file' = {save_results(results)}
    /\ IF ~env.skip_regression /\ baseline_file # {}
       THEN IF \E d \in baseline_file :
                  ~d.json \/ check_regression(results, d, env.threshold)
            THEN Exit(1)
            ELSE pc' = "saved" /\ UNCHANGED exit_code
       ELSE pc' = "saved" /\ UNCHANGED exit_code
    /\ UNCHANGED <<env, results, pass>>
    /\ UNCHANGED bench_frame

\* main: the regression check, unless skipped or without a baseline file,
\* and save_results.  json.load of a baseline that is not JSON raises, which
\* ends the process with exit code 1.
CheckAndSave ==
    /\ pc = "check"
    /\ IF ~env.skip_regression /\ baseline_file # {}
       THEN IF \E d \in baseline_file :
                  ~d.json \/ check_regression(results, d, env.threshold)
            THEN Exit(1) /\ UNCHANGED baseline_file
            ELSE /\ baseline_file' = {save_results(results)}
                 /\ pc' = "saved"
                 /\ UNCHANGED exit_code
       ELSE /\ baseline_file' = {save_results(results)}
            /\ pc' = "saved"
            /\ UNCHANGED exit_code
    /\ UNCHANGED <<env, results, pass>>
    /\ UNCHANGED bench_frame

\* main: run_comparison and the closing messages
FinishRun ==
    /\ pc = "saved"
    /\ Exit(0)
    /\ UNCHANGED <<env, results, baseline_file, pass>>
    /\ UNCHANGED bench_frame

\* the program is run again
NextRun ==
    /\ pc = "exited"
    /\ pass < MaxRuns
    /\ pass' = pass + 1
    /\ pc' = "shell"
    /\ exit_code' = None
    /\ UNCHANGED <<env, results, baseline_file>>
    /\ UNCHANGED bench_frame

NextBench == StartRun \/ CheckAndSave \/ FinishRun \/ NextRun

SpecBench == InitBench /\ [][NextBench]_vars

\* the run is at its regression check and the check fails
CheckFails ==
    /\ pc = "check"
    /\ ~env.skip_regression
    /\ \E d \in baseline_file :
          d.json /\ check_regression(results, d, env.threshold)

\* the run is past the check: it passed, was skipped or found no baseline
CheckPassed ==
    /\ pc = "check"
    /\ \/ env.skip_regression
       \/ baseline_file = {}
       \/ \E d \in baseline_file :
             d.json /\ ~check_regression(results, d, env.threshold)

\* C29: a run whose regression check fails ends with exit code 1 and the
\* baseline file as it was; the baseline file changes only in a run that
\* passed the check, skipped it or found no baseline, to the results of
\* that run, and that run ends with exit code 0; a run that ends with
\* another code has not touched the file.  So after every run the file
\* holds the results of the latest run that did not fail.
C29_BaselineOfLatestPassingRun ==
    [][/\ CheckFails =>
             /\ exit_code' = 1
             /\ pc' = "exited"
             /\ baseline_file' = baseline_file
       /\ baseline_file' # baseline_file =>
             /\ CheckPassed
             /\ baseline_file' = {save_results(results)}
             /\ pc' = "saved"
       /\ pc = "saved" =>
             /\ baseline_file = {save_results(results)}
             /\ baseline_file' = baseline_file
             /\ exit_code' = 0
       /\ (exit_code' # None /\ exit_code' # 0) =>
             /\ pc # "saved"
             /\ baseline_file' = baseline_file]_vars

\* a run has failed its check against the baseline an earlier run wrote,
\* and the file still holds the results of the earlier run
C29_Witness ==
    /\ pc = "exited"
    /\ exit_code = 1
    /\ pass > 1
    /\ env.setup_ok
    /\ \E d \in baseline_file :
          /\ d.json
          /\ d.results # results
          /\ check_regression(results, d, env.threshold)

----------------------------------------------------------------------------
(* analyze_fp_fn: the standalone analysis of the CytoScnPy findings *)

\* str.lower on the letters of the scenarios
LowerChar(c) ==
    CASE c = "A" -> "a"
      [] c = "C" -> "c"
      [] c = "D" -> "d"
      [] c = "E" -> "e"
      [] c = "F" -> "f"
      [] OTHER -> c

str_lower(s) == [i \in 1..Len(s) |-> LowerChar(s[i])]

\* normalize_path of analyze_fp_fn
analyze_normalize_path(p) == str_lower(normalize_path(p))

\* the entries of the documents, in the order read
RECURSIVE AllEntries(_)
AllEntries(docs) ==
    IF docs = <<>> THEN <<>> ELSE Head(docs) \o AllEntries(Tail(docs))

\* load_ground_truth of analyze_fp_fn: the keys of truth in the order of
\* insertion; an item marked suppressed is skipped
RECURSIVE analyze_truth_keys(_)
analyze_truth_keys(entries) ==
    IF entries = <<>> THEN <<>>
    ELSE LET e     == Head(entries)
             items == SelectSeq(e.dead_items,
                                LAMBDA item : ~Get(item, "suppressed", FALSE))
         IN  [i \in 1..Len(items) |->
                 <<analyze_normalize_path(e.path), items[i].type,
                   items[i].name, items[i].line_start>>]
             \o analyze_truth_keys(Tail(entries))

analyze_load_ground_truth(docs) ==
    [truth         |-> Distinct(analyze_truth_keys(AllEntries(docs))),
     covered_files |-> {analyze_normalize_path(e.path) :
                           e \in Range(AllEntries(docs))}]

\* load_cytoscnpy_output: the key of the item of the CytoScnPy output from
\* which parse_tool_output makes the finding f_item
analyze_finding_key(f_item) ==
    <<str_lower(f_item[1]),
      IF f_item[3] = "parameter" THEN "variable" ELSE f_item[3],
      f_item[4], f_item[2]>>

\* match_items, the tests on one truth key
analyze_is_match(finding_key, t_key) ==
    /\ \/ EndsWith(finding_key[1], t_key[1])
       \/ EndsWith(t_key[1], finding_key[1])
       \/ basename(finding_key[1]) = basename(t_key[1])
    /\ \/ finding_key[2] = t_key[2]
       \/ (finding_key[2] = "method" /\ t_key[2] = "function")
       \/ (finding_key[2] = "function" /\ t_key[2] = "method")
    /\ SimpleName(finding_key[3]) = SimpleName(t_key[3])
    /\ IF finding_key[4] # None /\ t_key[4] # None
       THEN Abs(finding_key[4] - t_key[4]) <= 2
       ELSE TRUE

\* match_items: the index of the first truth key that matches, 0 for None
match_items(finding_key, truth_keys) ==
    LET hits == {i \in 1..Len(truth_keys) :
                    analyze_is_match(finding_key, truth_keys[i])}
    IN  IF hits = {} THEN 0 ELSE CHOOSE i \in hits : \A j \in hits : i <= j

\* main of analyze_fp_fn, down to its overall metrics
analyze_main(docs, fs) ==
    LET loaded   == analyze_load_ground_truth(docs)
        truth    == loaded.truth
        keys     == {analyze_finding_key(f_item) : f_item \in fs}
        filtered_findings ==
            {k \in keys : \E cv \in loaded.covered_files :
                              EndsWith(k[1], cv) \/ EndsWith(cv, k[1])}
        matched_findings_ ==
            {k \in filtered_findings : match_items(k, truth) # 0}
        matched_truth ==
            {truth[match_items(k, truth)] : k \in matched_findings_}
        tp == Cardinality(matched_findings_)
    IN  [TP |-> tp,
         FP |-> Cardinality(filtered_findings) - tp,
         FN |-> Len(truth) - Cardinality(matched_truth)]

\* C30: on the same fixtures and the same CytoScnPy findings, the overall
\* TP, FP and FN of analyze_fp_fn are those of Verification.compare.
C30_SameOverallCounts ==
    pc = "done" =>
        analyze_main(fixtures, findings) =
            [TP |-> stats["overall"].TP, FP |-> stats["overall"].FP,
             FN |-> stats["overall"].FN]

====
